---- MODULE Spec2Model ----
(***************************************************************************)
(* A model of the samccann.sqlite collection.  From                        *)
(* plugins/module_utils/sqlite_common.py: safe_execute_with_retry,         *)
(* validate_identifier, standardize_error_message and                      *)
(* validate_database_path.  From plugins/modules: execute_query            *)
(* (sqlite_query.py), main of sqlite_db.py, main, backup_database,         *)
(* restore_database and rotate_backups of sqlite_backup.py, and main of    *)
(* sqlite_table.py.  Each has a specification of its own.                  *)
(* Python strings are TLA+ strings, handled with Len, SubSeq and \o.       *)
(***************************************************************************)
EXTENDS Integers, Sequences, FiniteSets, TLC

VARIABLES
    \* ---- safe_execute_with_retry ----
    r_pc,            \* position in the wrapper
    r_query,         \* argument query
    r_parameters,    \* argument parameters
    max_retries,     \* argument max_retries
    retry_delay,     \* argument retry_delay, in units of the base delay
    attempt,         \* loop variable of "for attempt in range(max_retries + 1)"
    last_error,      \* local last_error
    r_caught,        \* the exception cursor.execute raised, being handled
    r_log,           \* the calls made so far: cursor.execute and time.sleep
    r_raised,        \* the exception that left the wrapper
    \* ---- execute_query ----
    q_pc,            \* position in execute_query
    db_exists,       \* os.path.exists(db_path)
    query,           \* argument query
    parameters,      \* argument parameters
    fetch,           \* argument fetch
    transaction,     \* argument transaction
    conn,            \* local conn: "None", "open" or "closed"
    cursor,          \* local cursor: "None", "open" or "closed"
    results,         \* local results, a record of the keys set so far
    rowcount,        \* cursor.rowcount
    pending_error,   \* the exception travelling through except/finally
    q_caught,        \* the exception the except clause caught
    q_raised,        \* the exception that left execute_query
    q_calls,         \* the sqlite3 calls made so far, in order
    q_failed,        \* the calls and raise statements that raised, in order
    db_committed,    \* changes durably in the database file
    db_pending,      \* changes of the open, uncommitted transaction
    engine_wait,     \* ticks the engine has spent inside the current call
    \* ---- validate_sql_identifier ----
    v_pc,            \* "call", "returned" or "raised"
    v_type,          \* type(name).__name__
    v_name,          \* argument name (its text when it is a str)
    v_identifier_type, \* argument identifier_type
    v_result,        \* the value returned
    v_raised,        \* the exception raised
    \* ---- standardize_error_message ----
    e_pc,            \* "call" or "returned"
    e_operation,     \* argument operation
    e_error,         \* argument error
    e_context,       \* argument context, the dict as its sequence of items
    e_error_type,    \* local error_type
    e_message,       \* the value returned
    \* ---- validate_database_path (sqlite_common and sqlite_db) ----
    p_pc,            \* "call", "returned" or "raised"
    p_impl,          \* the module whose validate_database_path is called
    p_type,          \* type(path).__name__
    p_path,          \* argument path (its text when it is a str)
    p_cwd,           \* os.getcwd()
    p_links,         \* the symbolic links of the file system: link path -> target
    p_lstat_fails,   \* os.lstat raises ValueError (embedded null byte)
    p_result,        \* the value returned
    p_raised,        \* the exception raised
    \* ---- sqlite_db main ----
    d_pc,            \* position in main
    d_path,          \* module.params["path"], then the validated path
    d_state,         \* module.params["state"]
    d_backup,        \* module.params["backup"]
    d_check_mode,    \* module.check_mode
    d_mode,          \* module.params["mode"] ("" when not given)
    d_owner,         \* module.params["owner"] ("" when not given)
    d_maintenance,   \* module.params["maintenance"] is a non-empty dict
    d_performance,   \* module.params["performance"] is a non-empty dict
    d_file,          \* the database file: "missing", "original", "created" or "altered"
    d_file_at_start, \* the database file when the run began
    d_backup_files,  \* the backup files that exist
    d_file_exists,   \* local file_exists
    d_result,        \* local result
    d_msg,           \* the message of module.fail_json
    d_run,           \* which run of the module this is, with the same arguments
    \* ---- sqlite_backup main ----
    b_pc,            \* position in main
    b_src_path,      \* module.params["src"]
    b_operation,     \* module.params["operation"]
    b_compress,      \* module.params["compress"]
    b_overwrite,     \* module.params["overwrite"]
    b_verify_backup, \* module.params["verify_backup"]
    b_incremental,   \* module.params["incremental"]
    b_rotation,      \* module.params["rotation"] has a pattern
    b_checksum,      \* module.params["checksum"]
    b_check_mode,    \* module.check_mode
    b_src,           \* content of the source file ("missing" when there is none)
    b_dest,          \* content of the destination file ("missing" when there is none)
    b_dest_at_start, \* content of the destination file when the run began
    b_calls,         \* the file operations performed so far, in order
    b_result,        \* local result
    b_msg,           \* the message of module.fail_json, or the uncaught exception
    b_src_at_start,  \* content of the source file when the run began
    b_src_mtime,     \* modification time of the source file
    b_dest_mtime,    \* modification time of the destination file
    b_older,         \* the older backups next to the destination: name -> modification time
    b_older_at_start, \* the older backups when the run began
    b_keep_count,    \* rotation.get("keep_count", 5)
    b_removed,       \* the list rotate_backups returned
    \* ---- backup_database followed by restore_database ----
    t_pc,            \* "backup", "restore", "done" or "raised"
    t_compress,      \* argument compress of backup_database
    t_src,           \* content of the source file
    t_src_at_start,  \* content of the source file before the two calls
    t_backup,        \* content of the backup file ("missing" when there is none)
    t_dest,          \* content of the restored file ("missing" when there is none)
    \* ---- rotate_backups ----
    o_pc,            \* "call", "loop" or "returned"
    o_pattern,       \* argument pattern
    o_keep_count,    \* argument keep_count
    o_files,         \* the files of the backup directory: name -> modification time
    o_files_at_start, \* the files of the directory before the call
    o_locked,        \* the files os.remove cannot remove (it raises OSError)
    o_backup_files,  \* local backup_files
    o_i,             \* position of the for loop in backup_files[keep_count:]
    o_removed_files, \* local removed_files
    o_failed,        \* the files whose removal raised OSError
    \* ---- sqlite_table main ----
    tb_pc,           \* position in main
    tb_db_exists,    \* os.path.exists(db_path)
    tb_name,         \* module.params["name"]
    tb_state,        \* module.params["state"]
    tb_columns,      \* module.params["columns"]
    tb_if_not_exists, \* module.params["if_not_exists"]
    tb_cascade,      \* module.params["cascade"]
    tb_gather_info,  \* module.params["gather_info"]
    tb_check_mode,   \* module.check_mode
    tb_table,        \* the table in the database: "missing" or "present"
    tb_table_at_start, \* the table in the database when the run began
    tb_exists,       \* local exists
    tb_result,       \* local result
    tb_msg           \* the message of module.fail_json, or the uncaught exception

retryVars == <<r_pc, r_query, r_parameters, max_retries, retry_delay, attempt,
               last_error, r_caught, r_log, r_raised>>

queryVars == <<q_pc, db_exists, query, parameters, fetch, transaction, conn,
               cursor, results, rowcount, pending_error, q_caught, q_raised,
               q_calls, q_failed, db_committed, db_pending, engine_wait>>

identVars == <<v_pc, v_type, v_name, v_identifier_type, v_result, v_raised>>

errorVars == <<e_pc, e_operation, e_error, e_context, e_error_type, e_message>>

pathVars == <<p_pc, p_impl, p_type, p_path, p_cwd, p_links, p_lstat_fails, p_result, p_raised>>

dbVars ==
    <<d_pc, d_path, d_state, d_backup, d_check_mode, d_mode, d_owner, d_maintenance,
      d_performance, d_file, d_file_at_start, d_backup_files, d_file_exists, d_result, d_msg,
      d_run>>

backupVars ==
    <<b_pc, b_src_path, b_operation, b_compress, b_overwrite, b_verify_backup, b_incremental,
      b_rotation, b_checksum, b_check_mode, b_src, b_dest, b_dest_at_start, b_calls,
      b_result, b_msg, b_src_at_start, b_src_mtime, b_dest_mtime, b_older, b_older_at_start,
      b_keep_count, b_removed>>

tripVars == <<t_pc, t_compress, t_src, t_src_at_start, t_backup, t_dest>>

rotateVars ==
    <<o_pc, o_pattern, o_keep_count, o_files, o_files_at_start, o_locked, o_backup_files,
      o_i, o_removed_files, o_failed>>

tableVars ==
    <<tb_pc, tb_db_exists, tb_name, tb_state, tb_columns, tb_if_not_exists, tb_cascade,
      tb_gather_info, tb_check_mode, tb_table, tb_table_at_start, tb_exists, tb_result,
      tb_msg>>

vars == <<retryVars, queryVars, identVars, errorVars, pathVars, dbVars, backupVars, tripVars, rotateVars, tableVars>>

\* what a step of safe_execute_with_retry leaves alone
notRetryVars == <<queryVars, identVars, errorVars, pathVars, dbVars, backupVars, tripVars, rotateVars, tableVars>>

\* what a step of execute_query leaves alone
notQueryVars == <<retryVars, identVars, errorVars, pathVars, dbVars, backupVars, tripVars, rotateVars, tableVars>>

\* what a step of validate_sql_identifier leaves alone
notIdentVars == <<retryVars, queryVars, errorVars, pathVars, dbVars, backupVars, tripVars, rotateVars, tableVars>>

\* what a step of standardize_error_message leaves alone
notErrorVars == <<retryVars, queryVars, identVars, pathVars, dbVars, backupVars, tripVars, rotateVars, tableVars>>

\* what a step of validate_database_path leaves alone
notPathVars == <<retryVars, queryVars, identVars, errorVars, dbVars, backupVars, tripVars, rotateVars, tableVars>>

\* what a step of sqlite_db's main leaves alone
notDbVars == <<retryVars, queryVars, identVars, errorVars, pathVars, backupVars, tripVars, rotateVars, tableVars>>

\* what a step of sqlite_backup's main leaves alone
notBackupVars == <<retryVars, queryVars, identVars, errorVars, pathVars, dbVars, tripVars, rotateVars, tableVars>>

\* what backup_database and restore_database leave alone
notTripVars == <<retryVars, queryVars, identVars, errorVars, pathVars, dbVars, backupVars, rotateVars, tableVars>>

\* what rotate_backups leaves alone
notRotateVars == <<retryVars, queryVars, identVars, errorVars, pathVars, dbVars, backupVars, tripVars, tableVars>>

\* what a step of sqlite_table's main leaves alone
notTableVars == <<retryVars, queryVars, identVars, errorVars, pathVars, dbVars, backupVars, tripVars, rotateVars>>

-----------------------------------------------------------------------------
(* Bounds of the model. *)

MaxRetries == 3
MaxDelay == 2
MaxRows == 2
MaxWait == 2
MaxNameLen == 3
MaxSegments == 3
MaxContentLen == 4
MaxMtime == 2
MaxKeep == 3
MaxRuns == 2

-----------------------------------------------------------------------------
(* Python string operations. *)

UpperChars == "ABCDEFGHIJKLMNOPQRSTUVWXYZ"
LowerChars == "abcdefghijklmnopqrstuvwxyz"

CharAt(s, i) == SubSeq(s, i, i)

\* str.lower() on one character
LowerChar(c) ==
    IF \E i \in 1..Len(UpperChars) : CharAt(UpperChars, i) = c
    THEN CharAt(LowerChars, CHOOSE i \in 1..Len(UpperChars) : CharAt(UpperChars, i) = c)
    ELSE c

RECURSIVE Lower(_)
\* str.lower()
Lower(s) == IF s = "" THEN "" ELSE LowerChar(CharAt(s, 1)) \o Lower(SubSeq(s, 2, Len(s)))

\* "sub in s"
Contains(s, sub) ==
    \E i \in 1..(Len(s) - Len(sub) + 1) : SubSeq(s, i, i + Len(sub) - 1) = sub

\* s.startswith(prefix)
StartsWith(s, prefix) == Len(s) >= Len(prefix) /\ SubSeq(s, 1, Len(prefix)) = prefix

IsSpace(c) == c \in {" ", "\t", "\n"}

RECURSIVE LStrip(_)
LStrip(s) == IF s # "" /\ IsSpace(CharAt(s, 1)) THEN LStrip(SubSeq(s, 2, Len(s))) ELSE s

RECURSIVE RStrip(_)
RStrip(s) == IF s # "" /\ IsSpace(CharAt(s, Len(s))) THEN RStrip(SubSeq(s, 1, Len(s) - 1)) ELSE s

\* str.strip()
Strip(s) == RStrip(LStrip(s))

RECURSIVE SplitFrom(_, _, _)
\* the pieces of s from position i on, cur being the piece under construction
SplitFrom(s, i, cur) ==
    IF i > Len(s) THEN <<cur>>
    ELSE IF CharAt(s, i) = ";" THEN <<cur>> \o SplitFrom(s, i + 1, "")
    ELSE SplitFrom(s, i + 1, cur \o CharAt(s, i))

\* s.split(";")
Split(s) == SplitFrom(s, 1, "")

\* s[:n]
Prefix(s, n) == SubSeq(s, 1, IF Len(s) < n THEN Len(s) ELSE n)

RECURSIVE Repeat(_, _)
\* s * n
Repeat(s, n) == IF n <= 0 THEN "" ELSE s \o Repeat(s, n - 1)

RECURSIVE Pow2(_)
\* 2 ** n
Pow2(n) == IF n <= 0 THEN 1 ELSE 2 * Pow2(n - 1)

-----------------------------------------------------------------------------
(* Exceptions: a record of the class and of str(error). *)

Exc(cls, msg) == [cls |-> cls, msg |-> msg]

NoError == Exc("None", "None")

\* the direct base class of each exception class the model uses
BaseOf(cls) ==
    CASE cls = "IntegrityError" -> "DatabaseError"
      [] cls = "OperationalError" -> "DatabaseError"
      [] cls = "ProgrammingError" -> "DatabaseError"
      [] cls = "DatabaseError" -> "sqlite3.Error"
      [] cls = "sqlite3.Error" -> "Exception"
      [] cls = "SQLiteOperationError" -> "SQLiteError"
      [] cls = "SQLiteValidationError" -> "SQLiteError"
      [] cls = "SQLiteError" -> "Exception"
      [] cls = "PermissionError" -> "OSError"
      [] cls = "FileNotFoundError" -> "OSError"
      [] cls = "OSError" -> "Exception"
      [] cls = "ValueError" -> "Exception"
      [] OTHER -> "object"

RECURSIVE IsInstance(_, _)
\* isinstance(error, base), by the class of the error
IsInstance(cls, base) ==
    IF cls = base THEN TRUE
    ELSE IF cls \in {"object", "None"} THEN FALSE
    ELSE IsInstance(BaseOf(cls), base)

\* the if/elif chain of standardize_error_message
ErrorType(error) ==
    IF IsInstance(error.cls, "IntegrityError") THEN "Integrity constraint violation"
    ELSE IF IsInstance(error.cls, "OperationalError") THEN "Database operation error"
    ELSE IF IsInstance(error.cls, "DatabaseError") THEN "Database error"
    ELSE IF IsInstance(error.cls, "OSError") THEN "File system error"
    ELSE IF IsInstance(error.cls, "PermissionError") THEN "Permission error"
    ELSE "Unexpected error"

RECURSIVE JoinContext(_)
\* ", ".join(f"{key}={value}" for key, value in context.items())
JoinContext(context) ==
    IF context = <<>> THEN ""
    ELSE context[1][1] \o "=" \o context[1][2]
         \o (IF Len(context) > 1 THEN ", " ELSE "") \o JoinContext(Tail(context))

\* standardize_error_message(operation, error, context); context is the dict as
\* the sequence of its (key, str(value)) items in insertion order
StandardizeErrorMessage(operation, error, context) ==
    "SQLite " \o operation \o " failed" \o ": " \o ErrorType(error) \o " - " \o error.msg
    \o (IF context # <<>> THEN " (Context: " \o JoinContext(context) \o ")" ELSE "")

-----------------------------------------------------------------------------
(* safe_execute_with_retry *)

QueryCut == 100

LongQuery == "SELECT '" \o Repeat("0123456789", 10) \o "' AS padded"

RetryQueries == {"SELECT 1", LongQuery}

\* what one cursor.execute call can do: succeed or raise
ExecuteOutcomes ==
    { Exc("ok", ""),
      Exc("OperationalError", "database is locked"),
      Exc("OperationalError", "Database is LOCKED"),
      Exc("OperationalError", "SQLITE_BUSY"),
      Exc("OperationalError", "no such table: t"),
      Exc("IntegrityError", "database is locked"),
      Exc("ValueError", "busy") }

\* a retry policy that takes every operational error for a transient one
IsTransientAny(error_msg) == Len(error_msg) >= 0

\* line 285: the errors the wrapper retries
IsTransient(error_msg) == Contains(error_msg, "database is locked") \/ Contains(error_msg, "busy")

\* the context of the raise at lines 291-305
AttemptContext == << <<"query", Prefix(r_query, QueryCut)>>, <<"attempt", ToString(attempt + 1)>> >>

\* the context of the raise at lines 308-314
FinalContext ==
    << <<"query", Prefix(r_query, QueryCut)>>, <<"max_retries", ToString(max_retries)>>,
       <<"final_attempt", "True">> >>

RetryInit ==
    /\ r_pc = "for"
    /\ r_query \in RetryQueries
    /\ r_parameters \in {"None", "empty", "nonempty"}
    /\ max_retries \in (-1)..MaxRetries
    /\ retry_delay \in (-1)..MaxDelay
    /\ attempt = -1
    /\ last_error = NoError
    /\ r_caught = NoError
    /\ r_log = <<>>
    /\ r_raised = NoError

RetryIdle ==
    /\ r_pc = "idle"
    /\ r_query = ""
    /\ r_parameters = "None"
    /\ max_retries = 0
    /\ retry_delay = 0
    /\ attempt = -1
    /\ last_error = NoError
    /\ r_caught = NoError
    /\ r_log = <<>>
    /\ r_raised = NoError

\* "attempt in range(max_retries + 1)" has a next value
HasNextAttempt == attempt + 1 < max_retries + 1

\* line 273: the for statement takes the next attempt, or the loop ends and
\* lines 308-314 raise
R_For ==
    /\ r_pc = "for"
    /\ IF HasNextAttempt
       THEN /\ attempt' = attempt + 1
            /\ r_pc' = "try"
            /\ UNCHANGED r_raised
       ELSE /\ r_raised' = Exc("SQLiteOperationError",
                               StandardizeErrorMessage("query execution", last_error, FinalContext))
            /\ r_pc' = "raised"
            /\ UNCHANGED attempt
    /\ UNCHANGED <<r_query, r_parameters, max_retries, retry_delay, last_error, r_caught, r_log>>
    /\ UNCHANGED notRetryVars

\* the try body without its "return cursor": the loop goes on after a success
R_ExecuteNoReturn ==
    /\ r_pc = "try"
    /\ \E o \in ExecuteOutcomes :
        /\ r_log' = Append(r_log, [op |-> "execute", arg |-> attempt,
                                    with_parameters |-> (r_parameters = "nonempty"),
                                    outcome |-> o])
        /\ IF o.cls = "ok"
           THEN r_pc' = "for" /\ UNCHANGED r_caught
           ELSE r_pc' = "except" /\ r_caught' = o
    /\ UNCHANGED <<r_query, r_parameters, max_retries, retry_delay, attempt, last_error, r_raised>>
    /\ UNCHANGED notRetryVars

\* lines 274-279: cursor.execute, with or without parameters; return cursor
R_Execute ==
    /\ r_pc = "try"
    /\ \E o \in ExecuteOutcomes :
        /\ r_log' = Append(r_log, [op |-> "execute", arg |-> attempt,
                                    with_parameters |-> (r_parameters = "nonempty"),
                                    outcome |-> o])
        /\ IF o.cls = "ok"
           THEN r_pc' = "returned" /\ UNCHANGED r_caught
           ELSE r_pc' = "except" /\ r_caught' = o
    /\ UNCHANGED <<r_query, r_parameters, max_retries, retry_delay, attempt, last_error, r_raised>>
    /\ UNCHANGED notRetryVars

\* a backoff without the exponent
BackoffConstant == retry_delay

\* line 287: the length of the sleep after the current attempt
Backoff == retry_delay * Pow2(attempt)

\* line 286: attempts remain
MayRetry == attempt < max_retries

\* lines 280-297: except sqlite3.OperationalError
R_ExceptOperational ==
    /\ r_pc = "except"
    /\ IsInstance(r_caught.cls, "OperationalError")
    /\ last_error' = r_caught
    /\ IF IsTransient(Lower(r_caught.msg)) /\ MayRetry
       THEN IF Backoff < 0
            THEN \* time.sleep raises ValueError for a negative length
                 /\ r_raised' = Exc("ValueError", "sleep length must be non-negative")
                 /\ r_pc' = "raised"
                 /\ UNCHANGED r_log
            ELSE /\ r_log' = Append(r_log, [op |-> "sleep", arg |-> Backoff,
                                            with_parameters |-> FALSE, outcome |-> Exc("ok", "")])
                 /\ r_pc' = "for"
                 /\ UNCHANGED r_raised
       ELSE /\ r_raised' = Exc("SQLiteOperationError",
                               StandardizeErrorMessage("query execution", r_caught, AttemptContext))
            /\ r_pc' = "raised"
            /\ UNCHANGED r_log
    /\ UNCHANGED <<r_query, r_parameters, max_retries, retry_delay, attempt, r_caught>>
    /\ UNCHANGED notRetryVars

\* lines 298-305: except Exception
R_ExceptException ==
    /\ r_pc = "except"
    /\ ~IsInstance(r_caught.cls, "OperationalError")
    /\ IsInstance(r_caught.cls, "Exception")
    /\ r_raised' = Exc("SQLiteOperationError",
                       StandardizeErrorMessage("query execution", r_caught, AttemptContext))
    /\ r_pc' = "raised"
    /\ UNCHANGED <<r_query, r_parameters, max_retries, retry_delay, attempt, last_error,
                   r_caught, r_log>>
    /\ UNCHANGED notRetryVars

RetryNext == R_For \/ R_Execute \/ R_ExceptOperational \/ R_ExceptException

-----------------------------------------------------------------------------
(* execute_query *)

\* d[k] = v on a Python dict
SetKey(d, k, v) == [x \in (DOMAIN d) \cup {k} |-> IF x = k THEN v ELSE d[x]]

HasKey(d, k) == k \in DOMAIN d

RECURSIVE NonEmptyStripped(_)
\* [stmt.strip() for stmt in pieces if stmt.strip()]
NonEmptyStripped(pieces) ==
    IF pieces = <<>> THEN <<>>
    ELSE (IF Strip(Head(pieces)) # "" THEN <<Strip(Head(pieces))>> ELSE <<>>)
         \o NonEmptyStripped(Tail(pieces))

\* lines 184 and 229: the non-empty statements of the query text
Statements(q) == NonEmptyStripped(Split(q))

\* "if parameters:"
Truthy(p) == p = "nonempty"

Queries ==
    { "SELECT 1",
      "select a from t;",
      "INSERT INTO t VALUES (1)",
      "Update t Set a = 1",
      "DELETE FROM t RETURNING a",
      "CREATE TABLE t (a)",
      "alter table t add b",
      "SELECT updated FROM t",
      "SELECT created FROM t",
      "CREATE TABLE updates (a)",
      "PRAGMA user_version",
      "SELECT 1; SELECT 2",
      "INSERT INTO t VALUES (1); DROP TABLE u;",
      " ; create index i on t(a)" }

dml_keywords == <<"insert", "update", "delete">>
ddl_keywords == <<"create", "drop", "alter">>

\* any(keyword in text for keyword in keywords)
AnyKeywordIn(keywords, text) == \E i \in 1..Len(keywords) : Contains(text, keywords[i])

\* the classifier without the DDL branch: any keyword, then rowcount decides
ComputeChangedSimple(q, rc) ==
    AnyKeywordIn(dml_keywords \o ddl_keywords, Strip(Lower(q))) /\ rc > 0

\* lines 226-251: the value stored in results["changed"]
ComputeChanged(q, rc) ==
    LET query_lower == Strip(Lower(q))
        statements == Statements(q)
    IN  IF Len(statements) > 1
        THEN \E i \in 1..Len(statements) :
                 AnyKeywordIn(dml_keywords \o ddl_keywords, Strip(Lower(statements[i])))
        ELSE IF AnyKeywordIn(dml_keywords, query_lower) THEN rc > 0
        ELSE IF AnyKeywordIn(ddl_keywords, query_lower) THEN TRUE
        ELSE FALSE

\* a fetch that does not look at the statement
WantsRowsAlways(q) == Len(q) >= 0

\* line 205: the statement is SELECT-shaped or RETURNING-shaped
WantsRows(q) ==
    LET query_lower == Strip(Lower(q))
    IN  StartsWith(query_lower, "select") \/ Contains(query_lower, "returning")

\* sqlite3 opens a transaction before a statement that begins with one of these
EngineIsDml(stmt) ==
    \E kw \in {"insert", "update", "delete", "replace"} : StartsWith(Lower(LStrip(stmt)), kw)

\* statements sqlite3 runs at once, outside any transaction it opened itself
EngineIsDdl(stmt) ==
    \E kw \in {"create", "drop", "alter"} : StartsWith(Lower(LStrip(stmt)), kw)

\* the number of writing statements among the first n of a script
RECURSIVE WritesAmong(_, _)
WritesAmong(stmts, n) ==
    IF n <= 0 THEN 0
    ELSE WritesAmong(stmts, n - 1)
         + (IF EngineIsDml(stmts[n]) \/ EngineIsDdl(stmts[n]) THEN 1 ELSE 0)

QueryInit ==
    /\ q_pc = "start"
    /\ db_exists \in BOOLEAN
    /\ query \in Queries
    /\ parameters \in {"None", "empty", "nonempty"}
    /\ fetch \in {"all", "one", "none"}
    /\ transaction \in BOOLEAN
    /\ conn = "None"
    /\ cursor = "None"
    /\ results = <<>>
    /\ rowcount = -1
    /\ pending_error = NoError
    /\ q_caught = NoError
    /\ q_raised = NoError
    /\ q_calls = <<>>
    /\ q_failed = <<>>
    /\ db_committed = 0
    /\ db_pending = 0
    /\ engine_wait = 0

QueryIdle ==
    /\ q_pc = "idle"
    /\ db_exists = FALSE
    /\ query = ""
    /\ parameters = "None"
    /\ fetch = "none"
    /\ transaction = FALSE
    /\ conn = "None"
    /\ cursor = "None"
    /\ results = <<>>
    /\ rowcount = -1
    /\ pending_error = NoError
    /\ q_caught = NoError
    /\ q_raised = NoError
    /\ q_calls = <<>>
    /\ q_failed = <<>>
    /\ db_committed = 0
    /\ db_pending = 0
    /\ engine_wait = 0

args == <<db_exists, query, parameters, fetch, transaction>>

\* "what" raises e inside the try block: control goes to the except clauses
Throw(what, e) == pending_error' = e /\ q_pc' = "except" /\ q_failed' = Append(q_failed, what)

\* the entry without the existence check
Q_CheckExistsSkipped ==
    /\ q_pc = "start"
    /\ q_pc' = "connect"
    /\ UNCHANGED <<args, conn, cursor, results, rowcount, pending_error, q_caught, q_raised,
                   q_calls, q_failed, db_committed, db_pending, engine_wait>>
    /\ UNCHANGED notQueryVars

\* lines 165-168: the file must exist; nothing is opened before the check
Q_CheckExists ==
    /\ q_pc = "start"
    /\ IF db_exists
       THEN q_pc' = "connect" /\ UNCHANGED q_raised
       ELSE /\ q_raised' = Exc("DatabaseError", "Database file does not exist: db_path")
            /\ q_pc' = "raised"
    /\ UNCHANGED <<args, conn, cursor, results, rowcount, pending_error, q_caught, q_calls,
                   q_failed, db_committed, db_pending, engine_wait>>
    /\ UNCHANGED notQueryVars

\* lines 175-180: sqlite3.connect and conn.cursor()
Q_Connect ==
    /\ q_pc = "connect"
    /\ q_calls' = Append(q_calls, "connect")
    /\ \/ /\ conn' = "open"
          /\ cursor' = "open"
          /\ q_pc' = "dispatch"
          /\ UNCHANGED <<pending_error, q_failed>>
       \/ /\ Throw("connect", Exc("OperationalError", "unable to open database file"))
          /\ UNCHANGED <<conn, cursor>>
    /\ UNCHANGED <<args, results, rowcount, q_caught, q_raised, db_committed, db_pending,
                   engine_wait>>
    /\ UNCHANGED notQueryVars

\* the dispatch without the check of parameters
Q_DispatchNoCheck ==
    /\ q_pc = "dispatch"
    /\ q_calls' = Append(q_calls, IF Len(Statements(query)) > 1 THEN "executescript"
                                  ELSE "execute")
    /\ q_pc' = "in_engine"
    /\ UNCHANGED <<args, conn, cursor, results, rowcount, pending_error, q_caught, q_raised,
                   q_failed, db_committed, db_pending, engine_wait>>
    /\ UNCHANGED notQueryVars

\* lines 184-199: one statement goes to cursor.execute, several to
\* cursor.executescript, unless parameters were given with several
Q_Dispatch ==
    /\ q_pc = "dispatch"
    /\ IF Len(Statements(query)) > 1
       THEN IF Truthy(parameters)
            THEN /\ Throw("raise", Exc("DatabaseError",
                                       "Parameters are not supported with multiple statements"))
                 /\ UNCHANGED q_calls
            ELSE /\ q_calls' = Append(q_calls, "executescript")
                 /\ q_pc' = "in_engine"
                 /\ UNCHANGED <<pending_error, q_failed>>
       ELSE /\ q_calls' = Append(q_calls, "execute")
            /\ q_pc' = "in_engine"
            /\ UNCHANGED <<pending_error, q_failed>>
    /\ UNCHANGED <<args, conn, cursor, results, rowcount, q_caught, q_raised, db_committed,
                   db_pending, engine_wait>>
    /\ UNCHANGED notQueryVars

\* a wait with a deadline: the caller gives up once a tick has gone by
Q_EngineBusyDeadline ==
    /\ q_pc = "in_engine"
    /\ engine_wait < MaxWait
    /\ IF engine_wait >= 1
       THEN /\ Throw(q_calls[Len(q_calls)], Exc("TimeoutError", "Query timed out"))
            /\ UNCHANGED engine_wait
       ELSE /\ engine_wait' = engine_wait + 1
            /\ UNCHANGED <<q_pc, pending_error, q_failed>>
    /\ UNCHANGED <<args, conn, cursor, results, rowcount, q_caught, q_raised, q_calls,
                   db_committed, db_pending>>
    /\ UNCHANGED notQueryVars

\* lines 192 and 197-199: the call has not returned yet; execute_query waits in it
Q_EngineBusy ==
    /\ q_pc = "in_engine"
    /\ engine_wait < MaxWait
    /\ engine_wait' = engine_wait + 1
    /\ UNCHANGED <<q_pc, args, conn, cursor, results, rowcount, pending_error, q_caught,
                   q_raised, q_calls, q_failed, db_committed, db_pending>>
    /\ UNCHANGED notQueryVars

\* lines 197-200: cursor.execute returns or raises
Q_ExecuteDone ==
    /\ q_pc = "in_engine"
    /\ q_calls[Len(q_calls)] = "execute"
    /\ engine_wait' = 0
    /\ \/ \E rc \in (-1)..MaxRows :
            /\ rowcount' = rc
            /\ results' = SetKey(results, "rowcount", rc)
            /\ IF EngineIsDml(query) /\ rc > 0
               THEN db_pending' = db_pending + 1 /\ UNCHANGED db_committed
               ELSE IF EngineIsDdl(query)
               THEN db_committed' = db_committed + 1 /\ UNCHANGED db_pending
               ELSE UNCHANGED <<db_committed, db_pending>>
            /\ q_pc' = "fetch"
            /\ UNCHANGED <<pending_error, q_failed>>
       \/ /\ \E e \in { Exc("OperationalError", "no such table: t"),
                        Exc("ValueError", "the query contains a null character") } :
                Throw("execute", e)
          /\ UNCHANGED <<rowcount, results, db_committed, db_pending>>
    /\ UNCHANGED <<args, conn, cursor, q_caught, q_raised, q_calls>>
    /\ UNCHANGED notQueryVars

\* lines 192-193: cursor.executescript returns, or raises at its k-th statement;
\* statements of a script take effect one by one as they run
Q_ExecuteScriptDone ==
    /\ q_pc = "in_engine"
    /\ q_calls[Len(q_calls)] = "executescript"
    /\ engine_wait' = 0
    /\ LET stmts == Statements(query)
       IN  \/ /\ rowcount' = -1
              /\ results' = SetKey(results, "rowcount", -1)
              /\ db_committed' = db_committed + db_pending + WritesAmong(stmts, Len(stmts))
              /\ db_pending' = 0
              /\ q_pc' = "fetch"
              /\ UNCHANGED <<pending_error, q_failed>>
           \/ \E k \in 1..Len(stmts) :
              /\ Throw("executescript", Exc("OperationalError", "no such table: t"))
              /\ db_committed' = db_committed + db_pending + WritesAmong(stmts, k - 1)
              /\ db_pending' = 0
              /\ UNCHANGED <<rowcount, results>>
    /\ UNCHANGED <<args, conn, cursor, q_caught, q_raised, q_calls>>
    /\ UNCHANGED notQueryVars

\* lines 203-220: fetch the rows of a SELECT or RETURNING statement
Q_Fetch ==
    /\ q_pc = "fetch"
    /\ IF fetch # "none" /\ WantsRows(query)
       THEN /\ q_calls' = Append(q_calls, IF fetch = "all" THEN "fetchall" ELSE "fetchone")
            /\ \/ \E available \in 0..(IF q_calls[Len(q_calls)] = "execute" THEN MaxRows ELSE 0) :
                    LET rows == IF fetch = "all" THEN available
                                ELSE IF available > 0 THEN 1 ELSE 0
                    IN  /\ results' = IF rows > 0
                                      THEN SetKey(SetKey(results, "columns", "keys"), "rows", rows)
                                      ELSE results
                        /\ q_pc' = "changed"
                        /\ UNCHANGED <<pending_error, q_failed>>
               \/ /\ Throw(IF fetch = "all" THEN "fetchall" ELSE "fetchone",
                            Exc("OperationalError", "database disk image is malformed"))
                  /\ UNCHANGED results
       ELSE /\ q_pc' = "changed"
            /\ UNCHANGED <<q_calls, results, pending_error, q_failed>>
    /\ UNCHANGED <<args, conn, cursor, rowcount, q_caught, q_raised, db_committed, db_pending,
                   engine_wait>>
    /\ UNCHANGED notQueryVars

\* lines 222-251: results["changed"]
Q_Changed ==
    /\ q_pc = "changed"
    /\ results' = SetKey(results, "changed", ComputeChanged(query, rowcount))
    /\ q_pc' = "commit"
    /\ UNCHANGED <<args, conn, cursor, rowcount, pending_error, q_caught, q_raised, q_calls,
                   q_failed, db_committed, db_pending, engine_wait>>
    /\ UNCHANGED notQueryVars

\* the exception conn.commit() raises when it fails
CommitError == Exc("OperationalError", "database is locked")

\* lines 253-254: commit when transaction is set
Q_Commit ==
    /\ q_pc = "commit"
    /\ IF transaction
       THEN /\ q_calls' = Append(q_calls, "commit")
            /\ \/ /\ db_committed' = db_committed + db_pending
                  /\ db_pending' = 0
                  /\ q_pc' = "finally"
                  /\ UNCHANGED <<pending_error, q_failed>>
               \/ /\ Throw("commit", CommitError)
                  /\ UNCHANGED <<db_committed, db_pending>>
       ELSE /\ q_pc' = "finally"
            /\ UNCHANGED <<q_calls, pending_error, q_failed, db_committed, db_pending>>
    /\ UNCHANGED <<args, conn, cursor, results, rowcount, q_caught, q_raised, engine_wait>>
    /\ UNCHANGED notQueryVars

\* the exception conn.rollback() raises when it fails
RollbackError == Exc("OperationalError", "cannot rollback - disk I/O error")

\* a handler that raises without rolling back
RaiseWithoutRollback(e) ==
    /\ pending_error' = e
    /\ UNCHANGED <<q_calls, q_failed, db_pending>>

\* lines 257-258 and 261-262: "if conn and transaction: conn.rollback()", then
\* the raise that ends the handler with exception e
RollbackThenRaise(e) ==
    IF conn # "None" /\ transaction
    THEN /\ q_calls' = Append(q_calls, "rollback")
         /\ \/ /\ db_pending' = 0
               /\ pending_error' = e
               /\ UNCHANGED q_failed
            \/ /\ pending_error' = RollbackError
               /\ q_failed' = Append(q_failed, "rollback")
               /\ UNCHANGED db_pending
    ELSE /\ pending_error' = e
         /\ UNCHANGED <<q_calls, q_failed, db_pending>>

\* lines 256-259: except sqlite3.Error
Q_ExceptSqlite ==
    /\ q_pc = "except"
    /\ IsInstance(pending_error.cls, "sqlite3.Error")
    /\ q_caught' = pending_error
    /\ RollbackThenRaise(Exc("DatabaseError", "SQLite error: " \o pending_error.msg))
    /\ q_pc' = "finally"
    /\ UNCHANGED <<args, conn, cursor, results, rowcount, q_raised, db_committed, engine_wait>>
    /\ UNCHANGED notQueryVars

\* lines 260-263: except Exception
Q_ExceptOther ==
    /\ q_pc = "except"
    /\ ~IsInstance(pending_error.cls, "sqlite3.Error")
    /\ IsInstance(pending_error.cls, "Exception")
    /\ q_caught' = pending_error
    /\ RollbackThenRaise(pending_error)
    /\ q_pc' = "finally"
    /\ UNCHANGED <<args, conn, cursor, results, rowcount, q_raised, db_committed, engine_wait>>
    /\ UNCHANGED notQueryVars

\* the closes at the end of the try block instead of in finally: an exception
\* leaves without them
Q_FinallyCloseOnSuccess ==
    /\ q_pc = "finally"
    /\ IF pending_error = NoError
       THEN /\ q_calls' = q_calls \o <<"cursor.close", "conn.close">>
            /\ cursor' = "closed"
            /\ conn' = "closed"
            /\ db_pending' = 0
            /\ q_pc' = "returned"
            /\ UNCHANGED q_raised
       ELSE /\ q_pc' = "raised"
            /\ q_raised' = pending_error
            /\ UNCHANGED <<q_calls, cursor, conn, db_pending>>
    /\ UNCHANGED <<args, results, rowcount, pending_error, q_caught, q_failed, db_committed,
                   engine_wait>>
    /\ UNCHANGED notQueryVars

\* lines 264-270: close the cursor and the connection, then return results or
\* let the exception leave; closing drops what was not committed
Q_Finally ==
    /\ q_pc = "finally"
    /\ q_calls' = q_calls \o (IF cursor # "None" THEN <<"cursor.close">> ELSE <<>>)
                          \o (IF conn # "None" THEN <<"conn.close">> ELSE <<>>)
    /\ cursor' = IF cursor # "None" THEN "closed" ELSE cursor
    /\ conn' = IF conn # "None" THEN "closed" ELSE conn
    /\ db_pending' = 0
    /\ IF pending_error = NoError
       THEN q_pc' = "returned" /\ UNCHANGED q_raised
       ELSE q_pc' = "raised" /\ q_raised' = pending_error
    /\ UNCHANGED <<args, results, rowcount, pending_error, q_caught, q_failed, db_committed,
                   engine_wait>>
    /\ UNCHANGED notQueryVars

QueryNext ==
    \/ Q_CheckExists \/ Q_Connect \/ Q_Dispatch \/ Q_EngineBusy \/ Q_ExecuteDone
    \/ Q_ExecuteScriptDone \/ Q_Fetch \/ Q_Changed \/ Q_Commit \/ Q_ExceptSqlite
    \/ Q_ExceptOther \/ Q_Finally

-----------------------------------------------------------------------------
(* validate_sql_identifier *)

Digits == "0123456789"

IsLetter(c) ==
    \E i \in 1..Len(UpperChars) : CharAt(UpperChars, i) = c \/ CharAt(LowerChars, i) = c

IsDigit(c) == \E i \in 1..Len(Digits) : CharAt(Digits, i) = c

\* [a-zA-Z0-9_]
IsWordChar(c) == IsLetter(c) \/ IsDigit(c) \/ c = "_"

\* the text matches [a-zA-Z_][a-zA-Z0-9_]* from its first to its last character
FullMatch(text) ==
    /\ text # ""
    /\ IsLetter(CharAt(text, 1)) \/ CharAt(text, 1) = "_"
    /\ \A i \in 2..Len(text) : IsWordChar(CharAt(text, i))

\* line 110: re.match(r"^[a-zA-Z_][a-zA-Z0-9_]*$", name); "$" matches at the
\* end of the string and also just before a newline that ends the string
ReMatch(name) ==
    \/ FullMatch(name)
    \/ /\ name # ""
       /\ CharAt(name, Len(name)) = "\n"
       /\ FullMatch(SubSeq(name, 1, Len(name) - 1))

\* lines 117-242
reserved_keywords ==
    { "abort", "action", "add", "after", "all", "alter", "analyze", "and", "as", "asc",
      "attach", "autoincrement", "before", "begin", "between", "by", "cascade", "case",
      "cast", "check", "collate", "column", "commit", "conflict", "constraint", "create",
      "cross", "current_date", "current_time", "current_timestamp", "database", "default",
      "deferrable", "deferred", "delete", "desc", "detach", "distinct", "drop", "each",
      "else", "end", "escape", "except", "exclusive", "exists", "explain", "fail", "for",
      "foreign", "from", "full", "glob", "group", "having", "if", "ignore", "immediate",
      "in", "index", "indexed", "initially", "inner", "insert", "instead", "intersect",
      "into", "is", "isnull", "join", "key", "left", "like", "limit", "match", "natural",
      "no", "not", "notnull", "null", "of", "offset", "on", "or", "order", "outer", "plan",
      "pragma", "primary", "query", "raise", "recursive", "references", "regexp",
      "reindex", "release", "rename", "replace", "restrict", "right", "rollback", "row",
      "savepoint", "select", "set", "table", "temp", "temporary", "then", "to",
      "transaction", "trigger", "union", "unique", "update", "using", "vacuum", "values",
      "view", "virtual", "when", "where", "with", "without" }

\* a keyword test that forgets name.lower()
IsReservedAsWritten(name) == name \in reserved_keywords

\* line 244: name.lower() in reserved_keywords
IsReserved(name) == Lower(name) \in reserved_keywords

Alphabet == {"a", "s", "A", "S", "_", "1", "-", "\n"}

RECURSIVE StringsUpTo(_)
\* the strings over Alphabet of at most n characters
StringsUpTo(n) ==
    IF n <= 0 THEN {""}
    ELSE LET shorter == StringsUpTo(n - 1)
         IN  shorter \cup {t \o c : t \in shorter, c \in Alphabet}

Names ==
    StringsUpTo(MaxNameLen)
    \cup { "users", "users\n", "user name", "my_table", "col1", "1col", "select", "SELECT",
           "Select", "Table", "tables", "current_date", "Current_Time", "without", "order\n" }

ValidationError(msg) == Exc("SQLiteValidationError", msg)

IdentInit ==
    /\ v_pc = "call"
    /\ \/ v_type = "str" /\ v_name \in Names
       \/ v_type \in {"int", "NoneType"} /\ v_name = ""
    /\ v_identifier_type \in {"identifier", "table name"}
    /\ v_result = ""
    /\ v_raised = NoError

IdentIdle ==
    /\ v_pc = "idle"
    /\ v_type = "str"
    /\ v_name = ""
    /\ v_identifier_type = "identifier"
    /\ v_result = ""
    /\ v_raised = NoError

\* lines 101-249: the whole function
V_Validate ==
    /\ v_pc = "call"
    /\ IF v_type # "str"
       THEN /\ v_raised' = ValidationError("SQL " \o v_identifier_type
                                           \o " must be a string, got " \o v_type)
            /\ v_pc' = "raised"
            /\ UNCHANGED v_result
       ELSE IF v_name = ""
       THEN /\ v_raised' = ValidationError("SQL " \o v_identifier_type \o " cannot be empty")
            /\ v_pc' = "raised"
            /\ UNCHANGED v_result
       ELSE IF ~ReMatch(v_name)
       THEN /\ v_raised' = ValidationError("Invalid SQL " \o v_identifier_type \o ": '"
                   \o v_name \o "'. Must start with letter or underscore, "
                   \o "contain only letters, numbers, and underscores")
            /\ v_pc' = "raised"
            /\ UNCHANGED v_result
       ELSE IF IsReserved(v_name)
       THEN /\ v_raised' = ValidationError("SQL " \o v_identifier_type \o " '" \o v_name
                                           \o "' is a reserved keyword and cannot be used")
            /\ v_pc' = "raised"
            /\ UNCHANGED v_result
       ELSE /\ v_result' = v_name
            /\ v_pc' = "returned"
            /\ UNCHANGED v_raised
    /\ UNCHANGED <<v_type, v_name, v_identifier_type>>
    /\ UNCHANGED notIdentVars

IdentNext == V_Validate

-----------------------------------------------------------------------------
(* standardize_error_message *)

ErrorClasses ==
    { "IntegrityError", "OperationalError", "ProgrammingError", "DatabaseError",
      "sqlite3.Error", "PermissionError", "FileNotFoundError", "OSError",
      "ValueError", "SQLiteOperationError" }

ErrorTexts == {"disk I/O error", "[Errno 13] Permission denied: '/data/app.db'"}

Operations == {"query execution", "database creation", "backup"}

Contexts ==
    { <<>>,
      << <<"path", "/data/app.db">> >>,
      << <<"path", "/data/app.db">>, <<"attempt", "2">> >> }

ErrorInit ==
    /\ e_pc = "call"
    /\ e_operation \in Operations
    /\ e_error \in {Exc(cls, msg) : cls \in ErrorClasses, msg \in ErrorTexts}
    /\ e_context \in Contexts
    /\ e_error_type = ""
    /\ e_message = ""

ErrorIdle ==
    /\ e_pc = "idle"
    /\ e_operation = ""
    /\ e_error = NoError
    /\ e_context = <<>>
    /\ e_error_type = ""
    /\ e_message = ""

\* lines 53-84: the whole function
E_Standardize ==
    /\ e_pc = "call"
    /\ e_error_type' = ErrorType(e_error)
    /\ e_message' = StandardizeErrorMessage(e_operation, e_error, e_context)
    /\ e_pc' = "returned"
    /\ UNCHANGED <<e_operation, e_error, e_context>>
    /\ UNCHANGED notErrorVars

ErrorNext == E_Standardize

-----------------------------------------------------------------------------
(* validate_database_path, in sqlite_common and in sqlite_db; os.path *)

RECURSIVE SplitPathFrom(_, _, _)
SplitPathFrom(s, i, cur) ==
    IF i > Len(s) THEN <<cur>>
    ELSE IF CharAt(s, i) = "/" THEN <<cur>> \o SplitPathFrom(s, i + 1, "")
    ELSE SplitPathFrom(s, i + 1, cur \o CharAt(s, i))

\* path.split("/")
Components(path) == SplitPathFrom(path, 1, "")

\* os.path.isabs(path)
IsAbs(path) == StartsWith(path, "/")

RECURSIVE Joined(_)
Joined(comps) == IF comps = <<>> THEN "" ELSE "/" \o Head(comps) \o Joined(Tail(comps))

\* the absolute path with the given components
AbsOf(comps) == IF comps = <<>> THEN "/" ELSE Joined(comps)

ButLast(comps) == IF comps = <<>> THEN <<>> ELSE SubSeq(comps, 1, Len(comps) - 1)

RECURSIVE Walk(_, _, _)
\* posixpath._joinrealpath: from the directory cur, follow the names of rest;
\* "" and "." stay, ".." goes up, a symbolic link is replaced by its target
Walk(cur, rest, links) ==
    IF rest = <<>> THEN cur
    ELSE LET name == Head(rest)
             new == Append(cur, name)
         IN  IF name \in {"", "."} THEN Walk(cur, Tail(rest), links)
             ELSE IF name = ".." THEN Walk(ButLast(cur), Tail(rest), links)
             ELSE IF AbsOf(new) \in DOMAIN links
             THEN Walk(Walk(<<>>, Components(links[AbsOf(new)]), links), Tail(rest), links)
             ELSE Walk(new, Tail(rest), links)

\* os.path.realpath(path)
Realpath(path, cwd, links) ==
    AbsOf(Walk(IF IsAbs(path) THEN <<>> ELSE Walk(<<>>, Components(cwd), links),
               Components(path), links))

Segments == {"data", "app.db", "..", ".", "link", ""}

RECURSIVE SegmentLists(_)
SegmentLists(n) ==
    IF n <= 0 THEN {<<>>}
    ELSE LET shorter == SegmentLists(n - 1)
         IN  shorter \cup {Append(l, g) : l \in shorter, g \in Segments}

RECURSIVE JoinSlash(_)
\* "/".join(segments)
JoinSlash(l) ==
    IF l = <<>> THEN ""
    ELSE Head(l) \o (IF Len(l) > 1 THEN "/" ELSE "") \o JoinSlash(Tail(l))

Paths == {lead \o JoinSlash(l) : lead \in {"", "/"}, l \in SegmentLists(MaxSegments)}

NoLinks == [l \in {} |-> ""]

LinkTables == {NoLinks, "/link" :> "/data"}

WorkingDirectories == {"/", "/data"}

PathInit ==
    /\ p_pc = "call"
    /\ p_impl \in {"sqlite_common", "sqlite_db"}
    /\ \/ p_type = "str" /\ p_path \in Paths
       \/ p_type = "int" /\ p_path = ""
    /\ p_cwd \in WorkingDirectories
    /\ p_links \in LinkTables
    /\ p_lstat_fails \in BOOLEAN
    /\ p_result = ""
    /\ p_raised = NoError

PathIdle ==
    /\ p_pc = "idle"
    /\ p_impl = "sqlite_common"
    /\ p_type = "str"
    /\ p_path = ""
    /\ p_cwd = "/"
    /\ p_links = NoLinks
    /\ p_lstat_fails = FALSE
    /\ p_result = ""
    /\ p_raised = NoError

PathRaise(e) ==
    /\ p_raised' = e
    /\ p_pc' = "raised"
    /\ UNCHANGED p_result

PathReturn(value) ==
    /\ p_result' = value
    /\ p_pc' = "returned"
    /\ UNCHANGED p_raised

resolved_path == Realpath(p_path, p_cwd, p_links)

\* sqlite_common.validate_database_path, the whole function
P_ValidateCommon ==
    /\ p_pc = "call"
    /\ p_impl = "sqlite_common"
    /\ IF p_type # "str"
       THEN PathRaise(ValidationError("Database path must be a string, got " \o p_type))
       ELSE IF p_path = ""
       THEN PathRaise(ValidationError("Database path cannot be empty"))
       ELSE IF p_lstat_fails
       THEN PathRaise(ValidationError("Invalid database path: embedded null byte"))
       ELSE IF Contains(p_path, "..")
       THEN PathRaise(ValidationError("Directory traversal detected in path: " \o p_path))
       ELSE IF ~IsAbs(resolved_path)
       THEN PathRaise(ValidationError("Database path must be absolute: " \o p_path))
       ELSE PathReturn(resolved_path)
    /\ UNCHANGED <<p_impl, p_type, p_path, p_cwd, p_links, p_lstat_fails>>
    /\ UNCHANGED notPathVars

\* sqlite_db.validate_database_path, the whole function
P_ValidateDb ==
    /\ p_pc = "call"
    /\ p_impl = "sqlite_db"
    /\ IF p_type # "str"
       THEN PathRaise(Exc("ValueError", "Database path must be a string, got <class '"
                                        \o p_type \o "'>"))
       ELSE IF p_lstat_fails
       THEN PathRaise(Exc("ValueError", "Invalid database path: embedded null byte"))
       ELSE IF Contains(p_path, "..") \/ p_path # resolved_path
       THEN PathRaise(Exc("ValueError", "Directory traversal detected in path: " \o p_path))
       ELSE IF ~IsAbs(resolved_path)
       THEN PathRaise(Exc("ValueError", "Database path must be absolute: " \o p_path))
       ELSE PathReturn(resolved_path)
    /\ UNCHANGED <<p_impl, p_type, p_path, p_cwd, p_links, p_lstat_fails>>
    /\ UNCHANGED notPathVars

PathNext ==
    \/ P_ValidateCommon
    \/ P_ValidateDb

-----------------------------------------------------------------------------
(* sqlite_db: main *)

\* datetime.now().strftime("%Y%m%d_%H%M%S")
Timestamp == "20240101_120000"

\* validate_database_path(path) of sqlite_db returns instead of raising ValueError
DbPathAccepted(path) ==
    /\ ~(Contains(path, "..") \/ path # Realpath(path, "/", NoLinks))
    /\ IsAbs(Realpath(path, "/", NoLinks))

DbPaths == {"/data/app.db", "data/app.db", "/data/../app.db"}

DbInit ==
    /\ d_pc = "start"
    /\ d_path \in DbPaths
    /\ d_state \in {"present", "absent"}
    /\ d_backup \in BOOLEAN
    /\ d_check_mode \in BOOLEAN
    /\ d_mode \in {"", "0644"}
    /\ d_owner \in {"", "sqlite"}
    /\ d_maintenance \in BOOLEAN
    /\ d_performance \in BOOLEAN
    /\ d_file \in {"missing", "original"}
    /\ d_file_at_start = d_file
    /\ d_backup_files = {}
    /\ d_file_exists = FALSE
    /\ d_result = <<>>
    /\ d_msg = ""
    /\ d_run = 1

DbIdle ==
    /\ d_pc = "idle"
    /\ d_path = ""
    /\ d_state = "present"
    /\ d_backup = FALSE
    /\ d_check_mode = FALSE
    /\ d_mode = ""
    /\ d_owner = ""
    /\ d_maintenance = FALSE
    /\ d_performance = FALSE
    /\ d_file = "missing"
    /\ d_file_at_start = "missing"
    /\ d_backup_files = {}
    /\ d_file_exists = FALSE
    /\ d_result = <<>>
    /\ d_msg = ""
    /\ d_run = 0

dbParams == <<d_state, d_backup, d_check_mode, d_mode, d_owner, d_maintenance, d_performance,
              d_file_at_start, d_run>>

\* module.fail_json(msg=...)
FailJson(msg) ==
    /\ d_msg' = msg
    /\ d_pc' = "failed"

\* lines 382-396: validate the path, build result, look for the file
D_ValidatePath ==
    /\ d_pc = "start"
    /\ IF DbPathAccepted(d_path)
       THEN /\ d_result' = SetKey(SetKey(<<>>, "changed", FALSE), "path", d_path)
            /\ d_file_exists' = (d_file # "missing")
            /\ d_pc' = "backup"
            /\ UNCHANGED d_msg
       ELSE /\ FailJson("Invalid database path: Directory traversal detected in path: "
                        \o d_path)
            /\ UNCHANGED <<d_result, d_file_exists>>
    /\ UNCHANGED <<d_path, d_file, d_backup_files, dbParams>>
    /\ UNCHANGED notDbVars

WantsBackup == d_backup /\ d_file_exists /\ ~d_check_mode

\* line 399, condition false
D_NoBackup ==
    /\ d_pc = "backup"
    /\ ~WantsBackup
    /\ d_pc' = "state"
    /\ UNCHANGED <<d_path, d_file, d_backup_files, d_file_exists, d_result, d_msg, dbParams>>
    /\ UNCHANGED notDbVars

\* lines 399-402 with create_backup (lines 248-256): shutil.copy2 copies the
\* file or raises OSError, and then create_backup returns None
D_CreateBackup ==
    /\ d_pc = "backup"
    /\ WantsBackup
    /\ \E copied \in BOOLEAN :
        LET backup_file == IF copied THEN d_path \o ".backup." \o Timestamp ELSE "None"
        IN  /\ d_backup_files' = IF copied THEN d_backup_files \cup {backup_file}
                                 ELSE d_backup_files
            /\ d_result' = IF backup_file # "None"
                           THEN SetKey(d_result, "backup_file", backup_file)
                           ELSE d_result
    /\ d_pc' = "state"
    /\ UNCHANGED <<d_path, d_file, d_file_exists, d_msg, dbParams>>
    /\ UNCHANGED notDbVars

\* where main goes after lines 404-412
AfterCreate(changed) ==
    IF ~d_check_mode /\ (d_file_exists \/ changed) THEN "attributes" ELSE "exit"

\* lines 404-412, state == "present" and the file is missing
D_CreateDatabase ==
    /\ d_pc = "state"
    /\ d_state = "present"
    /\ ~d_file_exists
    /\ IF d_check_mode
       THEN /\ d_result' = SetKey(d_result, "changed", TRUE)
            /\ d_pc' = AfterCreate(TRUE)
            /\ UNCHANGED <<d_file, d_msg>>
       ELSE \E success \in BOOLEAN :
            IF success
            THEN /\ d_file' = "created"
                 /\ d_result' = SetKey(d_result, "changed", TRUE)
                 /\ d_pc' = AfterCreate(TRUE)
                 /\ UNCHANGED d_msg
            ELSE /\ FailJson("Failed to create database at " \o d_path)
                 /\ UNCHANGED <<d_file, d_result>>
    /\ UNCHANGED <<d_path, d_backup_files, d_file_exists, dbParams>>
    /\ UNCHANGED notDbVars

\* an existing file reported as a change
D_PresentExistingChanged ==
    /\ d_pc = "state"
    /\ d_state = "present"
    /\ d_file_exists
    /\ d_result' = SetKey(d_result, "changed", TRUE)
    /\ d_pc' = AfterCreate(TRUE)
    /\ UNCHANGED <<d_path, d_file, d_backup_files, d_file_exists, d_msg, dbParams>>
    /\ UNCHANGED notDbVars

\* lines 404-405 and 414, state == "present" and the file exists
D_PresentExisting ==
    /\ d_pc = "state"
    /\ d_state = "present"
    /\ d_file_exists
    /\ d_pc' = AfterCreate(d_result["changed"])
    /\ UNCHANGED <<d_path, d_file, d_backup_files, d_file_exists, d_result, d_msg, dbParams>>
    /\ UNCHANGED notDbVars

\* lines 415-435: size, os.chmod, os.chown
D_Attributes ==
    /\ d_pc = "attributes"
    /\ \E chmod_ok \in BOOLEAN, chown_ok \in BOOLEAN :
        IF d_mode # "" /\ ~chmod_ok
        THEN /\ FailJson("Failed to set mode " \o d_mode \o ": Operation not permitted")
             /\ d_result' = SetKey(d_result, "size", "size")
             /\ UNCHANGED d_file
        ELSE IF d_owner # "" /\ ~chown_ok
        THEN /\ FailJson("Failed to set ownership: Operation not permitted")
             /\ d_result' = SetKey(d_result, "size", "size")
             /\ d_file' = IF d_mode # "" /\ d_file = "original" THEN "altered" ELSE d_file
        ELSE /\ d_pc' = "maintenance"
             /\ d_result' = SetKey(d_result, "size", "size")
             /\ d_file' = IF (d_mode # "" \/ d_owner # "") /\ d_file = "original"
                          THEN "altered" ELSE d_file
             /\ UNCHANGED d_msg
    /\ UNCHANGED <<d_path, d_backup_files, d_file_exists, dbParams>>
    /\ UNCHANGED notDbVars

\* lines 437-444: perform_maintenance; VACUUM and ANALYZE rewrite the file
D_Maintenance ==
    /\ d_pc = "maintenance"
    /\ IF d_maintenance /\ ~d_check_mode
       THEN \E error \in BOOLEAN :
            IF error
            THEN /\ FailJson("Maintenance operation failed: database disk image is malformed")
                 /\ UNCHANGED <<d_result, d_file>>
            ELSE /\ d_result' = SetKey(d_result, "maintenance_results", "results")
                 /\ d_file' = IF d_file = "original" THEN "altered" ELSE d_file
                 /\ d_pc' = "performance"
                 /\ UNCHANGED d_msg
       ELSE /\ d_pc' = "performance"
            /\ UNCHANGED <<d_result, d_file, d_msg>>
    /\ UNCHANGED <<d_path, d_backup_files, d_file_exists, dbParams>>
    /\ UNCHANGED notDbVars

\* lines 446-453: apply_performance_settings; journal_mode is written to the file
D_Performance ==
    /\ d_pc = "performance"
    /\ IF d_performance /\ ~d_check_mode
       THEN \E error \in BOOLEAN :
            IF error
            THEN /\ FailJson("Performance optimization failed: database is locked")
                 /\ UNCHANGED <<d_result, d_file>>
            ELSE /\ d_result' = SetKey(d_result, "performance_results", "results")
                 /\ d_file' = IF d_file = "original" THEN "altered" ELSE d_file
                 /\ d_pc' = "foreign_keys"
                 /\ UNCHANGED d_msg
       ELSE /\ d_pc' = "foreign_keys"
            /\ UNCHANGED <<d_result, d_file, d_msg>>
    /\ UNCHANGED <<d_path, d_backup_files, d_file_exists, dbParams>>
    /\ UNCHANGED notDbVars

\* lines 455-463: configure_foreign_keys
D_ForeignKeys ==
    /\ d_pc = "foreign_keys"
    /\ \E outcome \in {"on", "off", "error"} :
        IF outcome = "error"
        THEN /\ FailJson("Failed to configure foreign keys: "
                         \o "Failed to configure foreign keys: database is locked")
             /\ UNCHANGED d_result
        ELSE /\ d_result' = SetKey(d_result, "foreign_keys_enabled", outcome = "on")
             /\ d_pc' = "exit"
             /\ UNCHANGED d_msg
    /\ UNCHANGED <<d_path, d_file, d_backup_files, d_file_exists, dbParams>>
    /\ UNCHANGED notDbVars

\* lines 465-474, state == "absent"
D_Remove ==
    /\ d_pc = "state"
    /\ d_state = "absent"
    /\ IF ~d_file_exists
       THEN /\ d_pc' = "exit"
            /\ UNCHANGED <<d_file, d_result, d_msg>>
       ELSE IF d_check_mode
       THEN /\ d_result' = SetKey(d_result, "changed", TRUE)
            /\ d_pc' = "exit"
            /\ UNCHANGED <<d_file, d_msg>>
       ELSE \E removed \in BOOLEAN :
            IF removed
            THEN /\ d_file' = "missing"
                 /\ d_result' = SetKey(d_result, "changed", TRUE)
                 /\ d_pc' = "exit"
                 /\ UNCHANGED d_msg
            ELSE /\ FailJson("Failed to remove database: Permission denied")
                 /\ UNCHANGED <<d_file, d_result>>
    /\ UNCHANGED <<d_path, d_backup_files, d_file_exists, dbParams>>
    /\ UNCHANGED notDbVars

\* line 476: module.exit_json(**result)
D_ExitJson ==
    /\ d_pc = "exit"
    /\ d_pc' = "exited"
    /\ UNCHANGED <<d_path, d_file, d_backup_files, d_file_exists, d_result, d_msg, dbParams>>
    /\ UNCHANGED notDbVars

\* the module is run again with the same arguments, on the files the run
\* before left behind
D_RunAgain ==
    /\ d_pc = "exited"
    /\ d_run < MaxRuns
    /\ d_run' = d_run + 1
    /\ d_pc' = "start"
    /\ d_file_at_start' = d_file
    /\ d_file_exists' = FALSE
    /\ d_result' = <<>>
    /\ d_msg' = ""
    /\ UNCHANGED <<d_path, d_state, d_backup, d_check_mode, d_mode, d_owner, d_maintenance,
                   d_performance, d_file, d_backup_files>>
    /\ UNCHANGED notDbVars

DbNext ==
    \/ D_ValidatePath
    \/ D_NoBackup
    \/ D_CreateBackup
    \/ D_CreateDatabase
    \/ D_PresentExisting
    \/ D_Attributes
    \/ D_Maintenance
    \/ D_Performance
    \/ D_ForeignKeys
    \/ D_Remove
    \/ D_ExitJson
    \/ D_RunAgain

-----------------------------------------------------------------------------
(* sqlite_backup: glob.glob, list.sort and os.remove as rotate_backups uses them *)

EndsWith(s, suffix) ==
    Len(s) >= Len(suffix) /\ SubSeq(s, Len(s) - Len(suffix) + 1, Len(s)) = suffix

\* the position of the "*" of the pattern, 0 when it has none
StarAt(pattern) ==
    IF \E k \in 1..Len(pattern) : CharAt(pattern, k) = "*"
    THEN CHOOSE k \in 1..Len(pattern) : CharAt(pattern, k) = "*"
    ELSE 0

\* fnmatch of a name against a pattern that is literal or has one "*", which
\* stands for any characters but "/"
GlobMatch(name, pattern) ==
    LET k == StarAt(pattern)
        tail == Len(pattern) - k
    IN  IF k = 0 THEN name = pattern
        ELSE /\ Len(name) >= Len(pattern) - 1
             /\ StartsWith(name, SubSeq(pattern, 1, k - 1))
             /\ EndsWith(name, SubSeq(pattern, k + 1, Len(pattern)))
             /\ ~Contains(SubSeq(name, k, Len(name) - tail), "/")

\* the names glob.glob(pattern) returns, in any order
Glob(pattern, files) == {f \in DOMAIN files : GlobMatch(f, pattern)}

\* the orders in which glob.glob can list the set
Listings(set) ==
    {l \in [1..Cardinality(set) -> set] : \A i, j \in DOMAIN l : l[i] = l[j] => i = j}

RECURSIVE InsertNewestFirst(_, _, _)
InsertNewestFirst(x, sorted, mtime) ==
    IF sorted = <<>> THEN <<x>>
    ELSE IF mtime[Head(sorted)] > mtime[x]
    THEN <<Head(sorted)>> \o InsertNewestFirst(x, Tail(sorted), mtime)
    ELSE <<x>> \o sorted

\* a sort that leaves the list as glob.glob returned it
Unsorted(list, mtime) == list

RECURSIVE SortNewestFirst(_, _)
\* backup_files.sort(key=os.path.getmtime, reverse=True): stable, equal
\* modification times keep their order
SortNewestFirst(list, mtime) ==
    IF list = <<>> THEN <<>>
    ELSE InsertNewestFirst(Head(list), SortNewestFirst(Tail(list), mtime), mtime)

\* os.remove and the directory afterwards
Without(files, name) == [f \in (DOMAIN files) \ {name} |-> files[f]]

-----------------------------------------------------------------------------
(* sqlite_backup: main.  A file is modelled by its content: "missing" (no
   file), "db" and "old" (two databases), "empty" (a database without
   tables), "corrupt" and "partial" (not a database), and "gz:" followed by
   a content for its gzip compression. *)

\* gzip.open(dest, "wb") filled from the content
Gzip(content) == "gz:" \o content

\* a sniffer that never sees a compressed file
IsCompressedFileNever(content) == FALSE

\* is_compressed_file: the file starts with the gzip magic number
IsCompressedFile(content) == StartsWith(content, "gz:")

\* gzip.open(src, "rb") read to the end
Gunzip(content) == SubSeq(content, 4, Len(content))

\* sqlite3 can open the file and PRAGMA integrity_check answers "ok"
IsDatabase(content) == content \in {"db", "old", "empty", "missing"}

\* verify_sqlite_db(path): the answer
VerifySqliteDb(content) == IsDatabase(content)

\* verify_sqlite_db(path): the file afterwards; sqlite3.connect creates a
\* missing file
AfterConnect(content) == IF content = "missing" THEN "empty" ELSE content

DestPath == "/backup/app.db"

\* rotation["pattern"]
RotationPattern == "/backup/*.db"

\* rotation.get("keep_count", 5)
DefaultKeepCount == 5

\* the clock when a file is written: later than every file already there
Now == MaxMtime + 1

NoBackups == [f \in {} |-> 0]

\* the older backups the run can find next to the destination
OlderBackups ==
    UNION {[present -> 1..MaxMtime] :
               present \in SUBSET {"/backup/monday.db", "/backup/sunday.db"}}

BackupInit ==
    /\ b_pc = "start"
    /\ \/ b_src_path = "/data/app.db" /\ b_src \in {"missing", "db", "corrupt", "gz:db"}
       \/ b_src_path = "/dev/null" /\ b_src = "empty"
    /\ b_operation \in {"backup", "restore", "verify"}
    /\ b_compress \in BOOLEAN
    /\ b_overwrite \in BOOLEAN
    /\ b_verify_backup \in BOOLEAN
    /\ b_incremental \in BOOLEAN
    /\ b_rotation \in BOOLEAN
    /\ b_checksum \in BOOLEAN
    /\ b_check_mode \in BOOLEAN
    /\ b_dest \in {"missing", "old", "gz:old"}
    /\ b_dest_at_start = b_dest
    /\ b_calls = <<>>
    /\ b_result = <<>>
    /\ b_msg = ""
    /\ b_src_at_start = b_src
    /\ b_dest_mtime = 1
    /\ IF b_operation = "backup" /\ b_rotation
       THEN /\ b_src_mtime \in 1..MaxMtime
            /\ b_older \in OlderBackups
            /\ b_keep_count \in 0..MaxKeep
       ELSE /\ b_src_mtime = 1
            /\ b_older = NoBackups
            /\ b_keep_count = DefaultKeepCount
    /\ b_older_at_start = b_older
    /\ b_removed = <<>>

BackupIdle ==
    /\ b_pc = "idle"
    /\ b_src_path = ""
    /\ b_operation = "backup"
    /\ b_compress = FALSE
    /\ b_overwrite = FALSE
    /\ b_verify_backup = FALSE
    /\ b_incremental = FALSE
    /\ b_rotation = FALSE
    /\ b_checksum = FALSE
    /\ b_check_mode = FALSE
    /\ b_src = "missing"
    /\ b_dest = "missing"
    /\ b_dest_at_start = "missing"
    /\ b_calls = <<>>
    /\ b_result = <<>>
    /\ b_msg = ""
    /\ b_src_at_start = "missing"
    /\ b_src_mtime = 0
    /\ b_dest_mtime = 0
    /\ b_older = NoBackups
    /\ b_older_at_start = NoBackups
    /\ b_keep_count = 0
    /\ b_removed = <<>>

backupParams ==
    <<b_src_path, b_operation, b_compress, b_overwrite, b_verify_backup, b_incremental,
      b_rotation, b_checksum, b_check_mode, b_dest_at_start, b_src_at_start, b_src_mtime,
      b_older_at_start, b_keep_count>>

\* what only the copy and the rotation change
backupDirectory == <<b_dest_mtime, b_older, b_removed>>

\* the files glob.glob can see: the older backups and the destination
BackupDirectory ==
    IF b_dest = "missing" THEN b_older
    ELSE [f \in (DOMAIN b_older) \cup {DestPath} |->
             IF f = DestPath THEN b_dest_mtime ELSE b_older[f]]

\* module.fail_json(msg=...)
BackupFailJson(msg) ==
    /\ b_msg' = msg
    /\ b_pc' = "failed"

\* an exception main does not catch
BackupCrash(exception) ==
    /\ b_msg' = exception
    /\ b_pc' = "crashed"

\* lines 378-392: result, the source must exist, src_size
B_CheckSource ==
    /\ b_pc = "start"
    /\ LET result == [k \in {"changed", "src", "dest", "operation", "compressed"} |->
                        CASE k = "changed" -> FALSE
                          [] k = "src" -> b_src_path
                          [] k = "dest" -> DestPath
                          [] k = "operation" -> b_operation
                          [] k = "compressed" -> b_compress]
       IN  IF b_src = "missing" /\ b_operation # "verify"
           THEN /\ BackupFailJson("Source file does not exist: " \o b_src_path)
                /\ b_result' = result
           ELSE /\ b_result' = IF b_src # "missing" THEN SetKey(result, "src_size", "size")
                               ELSE result
                /\ b_pc' = "dest"
                /\ UNCHANGED b_msg
    /\ UNCHANGED <<b_src, b_dest, b_calls, backupParams>>
    /\ UNCHANGED backupDirectory
    /\ UNCHANGED notBackupVars

\* lines 394-401 without the overwrite test
B_CheckDestAlwaysOverwrite ==
    /\ b_pc = "dest"
    /\ b_result' = IF b_dest # "missing" THEN SetKey(b_result, "dest_size", "size")
                   ELSE b_result
    /\ b_pc' = "operate"
    /\ UNCHANGED <<b_src, b_dest, b_calls, b_msg, backupParams>>
    /\ UNCHANGED backupDirectory
    /\ UNCHANGED notBackupVars

\* lines 394-401: dest_size, and an existing destination needs overwrite
B_CheckDest ==
    /\ b_pc = "dest"
    /\ b_result' = IF b_dest # "missing" THEN SetKey(b_result, "dest_size", "size")
                   ELSE b_result
    /\ IF b_dest # "missing" /\ ~b_overwrite /\ b_operation \in {"backup", "restore"}
       THEN BackupFailJson("Destination file exists and overwrite=false: " \o DestPath)
       ELSE b_pc' = "operate" /\ UNCHANGED b_msg
    /\ UNCHANGED <<b_src, b_dest, b_calls, backupParams>>
    /\ UNCHANGED backupDirectory
    /\ UNCHANGED notBackupVars

\* lines 404-411 and 458: verify the source; in check mode nothing else is done
B_VerifySource ==
    /\ b_pc = "operate"
    /\ b_operation = "backup"
    /\ b_calls' = Append(b_calls, "verify_src")
    /\ IF ~VerifySqliteDb(b_src)
       THEN /\ BackupFailJson("Source database integrity check failed: " \o b_src_path)
            /\ UNCHANGED b_result
       ELSE IF b_check_mode
       THEN /\ b_result' = SetKey(b_result, "changed", TRUE)
            /\ b_pc' = "exit"
            /\ UNCHANGED b_msg
       ELSE /\ b_pc' = "copy"
            /\ UNCHANGED <<b_result, b_msg>>
    /\ UNCHANGED <<b_src, b_dest, backupParams>>
    /\ UNCHANGED backupDirectory
    /\ UNCHANGED notBackupVars

\* lines 418-425, after the copy
Copied(result) ==
    LET sized == SetKey(SetKey(result, "backup_time", "seconds"), "dest_size", "size")
    IN  IF b_checksum THEN SetKey(sized, "checksum", "md5") ELSE sized

\* backup_database(src_path, dest_path, compress): the destination afterwards
BackupDatabaseTo(src, compress) == IF compress THEN Gzip(src) ELSE src

\* backup_database (lines 225-237): the destination afterwards
BackupDatabase(src) == BackupDatabaseTo(src, b_compress)

\* restore_database(src_path, dest_path, compressed): the destination afterwards
RestoreDatabase(src, compressed) == IF compressed THEN Gunzip(src) ELSE src

\* the modification time of the file the copy wrote: gzip.open writes a new
\* file, shutil.copy2 copies the modification time of the source with the data
CopiedMtime(compressed) == IF compressed THEN Now ELSE b_src_mtime

\* lines 411-424: incremental_backup (lines 276-321) or backup_database; a
\* source that is written to during the copy gives a torn copy.
\* In incremental_backup, dest_conn.backup(src_conn) copies the destination
\* database (the temporary file when compressing) INTO the source and returns
\* None, so backup.step raises AttributeError; a destination that is not a
\* database raises sqlite3.Error instead, and backup_database takes over.
B_Copy ==
    /\ b_pc = "copy"
    /\ b_calls' = Append(b_calls, "copy")
    /\ IF b_incremental /\ (b_compress \/ IsDatabase(b_dest))
       THEN /\ b_src' = IF b_compress THEN "empty" ELSE AfterConnect(b_dest)
            /\ b_dest' = IF b_compress THEN b_dest ELSE AfterConnect(b_dest)
            /\ BackupCrash("AttributeError: 'NoneType' object has no attribute 'step'")
            /\ UNCHANGED <<b_result, b_dest_mtime>>
       ELSE \E copy \in {"whole", "torn", "oserror"} :
            IF copy = "oserror"
            THEN /\ b_dest' \in {b_dest, "partial"}
                 /\ b_dest_mtime' = IF b_dest' = "partial" THEN Now ELSE b_dest_mtime
                 /\ BackupCrash("OSError: [Errno 28] No space left on device")
                 /\ UNCHANGED <<b_src, b_result>>
            ELSE /\ b_dest' = BackupDatabase(IF copy = "torn" THEN "corrupt" ELSE b_src)
                 /\ b_dest_mtime' = CopiedMtime(b_compress)
                 /\ b_result' = Copied(b_result)
                 /\ b_pc' = IF b_verify_backup THEN "verify" ELSE "rotate"
                 /\ UNCHANGED <<b_src, b_msg>>
    /\ UNCHANGED <<b_older, b_removed, backupParams>>
    /\ UNCHANGED notBackupVars

\* lines 427-447: verify the new backup, through a temporary file when compressed
B_VerifyBackupUnchecked ==
    /\ b_pc = "verify"
    /\ b_calls' = Append(b_calls, "verify_dest")
    /\ b_result' = SetKey(b_result, "verified",
                          VerifySqliteDb(IF b_compress THEN Gunzip(b_dest) ELSE b_dest))
    /\ b_pc' = "rotate"
    /\ UNCHANGED <<b_src, b_dest, b_msg, backupParams>>
    /\ UNCHANGED backupDirectory
    /\ UNCHANGED notBackupVars

B_VerifyBackup ==
    /\ b_pc = "verify"
    /\ b_calls' = Append(b_calls, "verify_dest")
    /\ LET verified == VerifySqliteDb(IF b_compress THEN Gunzip(b_dest) ELSE b_dest)
       IN  /\ b_result' = SetKey(b_result, "verified", verified)
           /\ IF verified
              THEN b_pc' = "rotate" /\ UNCHANGED b_msg
              ELSE BackupFailJson("Backup verification failed")
    /\ UNCHANGED <<b_src, b_dest, backupParams>>
    /\ UNCHANGED backupDirectory
    /\ UNCHANGED notBackupVars

\* lines 449-458: rotate_backups (lines 324-344) when a pattern is given, then
\* changed = True
B_Rotate ==
    /\ b_pc = "rotate"
    /\ IF b_rotation
       THEN \E listing \in Listings(Glob(RotationPattern, BackupDirectory)) :
            LET backup_files == SortNewestFirst(listing, BackupDirectory)
                old_backups == SubSeq(backup_files, b_keep_count + 1, Len(backup_files))
            IN  \E locked \in SUBSET {old_backups[i] : i \in DOMAIN old_backups} :
                LET removed_files == SelectSeq(old_backups, LAMBDA f : f \notin locked)
                    gone == {removed_files[i] : i \in DOMAIN removed_files}
                IN  /\ b_removed' = removed_files
                    /\ b_older' = [f \in (DOMAIN b_older) \ gone |-> b_older[f]]
                    /\ b_dest' = IF DestPath \in gone THEN "missing" ELSE b_dest
                    /\ b_calls' = Append(b_calls, "rotate")
                    /\ b_result' = SetKey(IF removed_files # <<>>
                                          THEN SetKey(b_result, "rotated_files", removed_files)
                                          ELSE b_result, "changed", TRUE)
       ELSE /\ b_result' = SetKey(b_result, "changed", TRUE)
            /\ UNCHANGED <<b_calls, b_dest, b_older, b_removed>>
    /\ b_pc' = "exit"
    /\ UNCHANGED <<b_src, b_msg, b_dest_mtime, backupParams>>
    /\ UNCHANGED notBackupVars

\* lines 460-480: restore_database (lines 240-252) and the check of its result
B_Restore ==
    /\ b_pc = "operate"
    /\ b_operation = "restore"
    /\ LET src_compressed == IsCompressedFile(b_src)
           result == SetKey(b_result, "compressed", src_compressed)
           restored == RestoreDatabase(b_src, src_compressed)
       IN  IF b_check_mode
           THEN /\ b_result' = SetKey(result, "changed", TRUE)
                /\ b_pc' = "exit"
                /\ UNCHANGED <<b_dest, b_calls, b_msg>>
           ELSE \E copied \in BOOLEAN :
                IF ~copied
                THEN /\ b_dest' \in {b_dest, "partial"}
                     /\ b_calls' = Append(b_calls, "copy")
                     /\ BackupCrash("OSError: [Errno 28] No space left on device")
                     /\ b_result' = result
                ELSE /\ b_dest' = restored
                     /\ b_calls' = b_calls \o <<"copy", "verify_dest">>
                     /\ IF VerifySqliteDb(restored)
                        THEN /\ b_result' =
                                  SetKey(SetKey(SetKey(result, "backup_time", "seconds"),
                                                "dest_size", "size"), "changed", TRUE)
                             /\ b_pc' = "exit"
                             /\ UNCHANGED b_msg
                        ELSE /\ b_result' = SetKey(SetKey(result, "backup_time", "seconds"),
                                                   "dest_size", "size")
                             /\ BackupFailJson("Restored database integrity check failed")
    /\ UNCHANGED <<b_src, backupParams>>
    /\ UNCHANGED backupDirectory
    /\ UNCHANGED notBackupVars

\* lines 482-490: operation verify
B_Verify ==
    /\ b_pc = "operate"
    /\ b_operation = "verify"
    /\ IF b_src_path # "/dev/null"
       THEN /\ b_calls' = Append(b_calls, "verify_src")
            /\ b_src' = AfterConnect(b_src)
            /\ b_result' = SetKey(b_result, "verified", VerifySqliteDb(b_src))
            /\ IF VerifySqliteDb(b_src)
               THEN b_pc' = "exit" /\ UNCHANGED b_msg
               ELSE BackupFailJson("Database integrity check failed: " \o b_src_path)
       ELSE /\ b_pc' = "exit"
            /\ UNCHANGED <<b_calls, b_src, b_result, b_msg>>
    /\ UNCHANGED <<b_dest, backupParams>>
    /\ UNCHANGED backupDirectory
    /\ UNCHANGED notBackupVars

\* line 495: module.exit_json(**result)
B_ExitJson ==
    /\ b_pc = "exit"
    /\ b_pc' = "exited"
    /\ UNCHANGED <<b_src, b_dest, b_calls, b_result, b_msg, backupParams>>
    /\ UNCHANGED backupDirectory
    /\ UNCHANGED notBackupVars

BackupNext ==
    \/ B_CheckSource
    \/ B_CheckDest
    \/ B_VerifySource
    \/ B_Copy
    \/ B_VerifyBackup
    \/ B_Rotate
    \/ B_Restore
    \/ B_Verify
    \/ B_ExitJson

-----------------------------------------------------------------------------
(* sqlite_backup: backup_database followed by restore_database *)

ContentChars == {"g", "z", ":", "d"}

RECURSIVE ContentsUpTo(_)
\* the file contents of at most n characters
ContentsUpTo(n) ==
    IF n <= 0 THEN {""}
    ELSE LET shorter == ContentsUpTo(n - 1)
         IN  shorter \cup {t \o c : t \in shorter, c \in ContentChars}

TripInit ==
    /\ t_pc = "backup"
    /\ t_compress \in BOOLEAN
    /\ t_src \in ContentsUpTo(MaxContentLen)
    /\ t_src_at_start = t_src
    /\ t_backup = "missing"
    /\ t_dest = "missing"

TripIdle ==
    /\ t_pc = "idle"
    /\ t_compress = FALSE
    /\ t_src = ""
    /\ t_src_at_start = ""
    /\ t_backup = "missing"
    /\ t_dest = "missing"

\* backup_database(src, b, compress), lines 225-237; the copy may raise OSError
T_Backup ==
    /\ t_pc = "backup"
    /\ \E copied \in BOOLEAN :
        IF copied
        THEN t_backup' = BackupDatabaseTo(t_src, t_compress) /\ t_pc' = "restore"
        ELSE t_backup' \in {"missing", "partial"} /\ t_pc' = "raised"
    /\ UNCHANGED <<t_compress, t_src, t_src_at_start, t_dest>>
    /\ UNCHANGED notTripVars

\* restore_database(b, d, is_compressed_file(b)), lines 240-261; the copy may
\* raise OSError
T_Restore ==
    /\ t_pc = "restore"
    /\ \E copied \in BOOLEAN :
        IF copied
        THEN t_dest' = RestoreDatabase(t_backup, IsCompressedFile(t_backup)) /\ t_pc' = "done"
        ELSE t_dest' \in {"missing", "partial"} /\ t_pc' = "raised"
    /\ UNCHANGED <<t_compress, t_src, t_src_at_start, t_backup>>
    /\ UNCHANGED notTripVars

TripNext ==
    \/ T_Backup
    \/ T_Restore

-----------------------------------------------------------------------------
(* sqlite_backup: rotate_backups *)

BackupNames == {"a.bak", "b.bak", "c.bak"}

OtherFile == "app.db"

\* the directories the call can find: app.db and any of the backups
Directories ==
    UNION {[present \cup {OtherFile} -> 1..MaxMtime] : present \in SUBSET BackupNames}

RotateInit ==
    /\ o_pc = "call"
    /\ o_pattern \in {"", "*.bak", "a.bak"}
    /\ o_keep_count \in 0..MaxKeep
    /\ o_files \in Directories
    /\ o_files_at_start = o_files
    /\ o_locked \in SUBSET BackupNames
    /\ o_backup_files = <<>>
    /\ o_i = 0
    /\ o_removed_files = <<>>
    /\ o_failed = {}

RotateIdle ==
    /\ o_pc = "idle"
    /\ o_pattern = ""
    /\ o_keep_count = 0
    /\ o_files = <<>>
    /\ o_files_at_start = <<>>
    /\ o_locked = {}
    /\ o_backup_files = <<>>
    /\ o_i = 0
    /\ o_removed_files = <<>>
    /\ o_failed = {}

rotateArgs == <<o_pattern, o_keep_count, o_files_at_start, o_locked>>

\* lines 326-333: no pattern returns []; glob.glob, then the sort
O_Glob ==
    /\ o_pc = "call"
    /\ IF o_pattern = ""
       THEN /\ o_pc' = "returned"
            /\ UNCHANGED <<o_backup_files, o_i>>
       ELSE /\ \E listing \in Listings(Glob(o_pattern, o_files)) :
                 o_backup_files' = SortNewestFirst(listing, o_files)
            /\ o_i' = o_keep_count + 1
            /\ o_pc' = "loop"
    /\ UNCHANGED <<o_files, o_removed_files, o_failed, rotateArgs>>
    /\ UNCHANGED notRotateVars

\* lines 337-342: one turn of "for old_backup in backup_files[keep_count:]"
O_Remove ==
    /\ o_pc = "loop"
    /\ o_i <= Len(o_backup_files)
    /\ LET old_backup == o_backup_files[o_i]
       IN  IF old_backup \in o_locked
           THEN /\ o_failed' = o_failed \cup {old_backup}
                /\ UNCHANGED <<o_files, o_removed_files>>
           ELSE /\ o_files' = Without(o_files, old_backup)
                /\ o_removed_files' = Append(o_removed_files, old_backup)
                /\ UNCHANGED o_failed
    /\ o_i' = o_i + 1
    /\ UNCHANGED <<o_pc, o_backup_files, rotateArgs>>
    /\ UNCHANGED notRotateVars

\* line 344: return removed_files
O_Return ==
    /\ o_pc = "loop"
    /\ o_i > Len(o_backup_files)
    /\ o_pc' = "returned"
    /\ UNCHANGED <<o_files, o_backup_files, o_i, o_removed_files, o_failed, rotateArgs>>
    /\ UNCHANGED notRotateVars

RotateNext ==
    \/ O_Glob
    \/ O_Remove
    \/ O_Return

-----------------------------------------------------------------------------
(* sqlite_table: main *)

\* lines 161-165
table_reserved_keywords ==
    { "select", "insert", "update", "delete", "drop", "create", "alter", "table", "index",
      "view", "trigger", "database", "schema", "where", "order", "group", "having", "union",
      "join" }

\* validate_sql_identifier of sqlite_table (lines 152-168) returns instead of
\* raising ValueError
TableIdentifierOk(name) == ReMatch(name) /\ Lower(name) \notin table_reserved_keywords

TableNames == {"users", "Order", "user data"}

ColumnLists ==
    { <<>>,
      << [name |-> "id", type |-> "INTEGER"], [name |-> "email", type |-> "TEXT"] >>,
      << [name |-> "id", type |-> "INTEGER"], [name |-> "email", type |-> "VARCHAR(255)"] >> }

\* create_table, lines 218-222: every column name and type passes validation
ColumnsValid(columns) ==
    \A i \in DOMAIN columns :
        TableIdentifierOk(columns[i].name) /\ TableIdentifierOk(columns[i].type)

TableInit ==
    /\ tb_pc = "start"
    /\ tb_db_exists \in BOOLEAN
    /\ tb_name \in TableNames
    /\ tb_state \in {"present", "absent"}
    /\ tb_columns \in ColumnLists
    /\ tb_if_not_exists \in BOOLEAN
    /\ tb_cascade \in BOOLEAN
    /\ tb_gather_info \in BOOLEAN
    /\ tb_check_mode \in BOOLEAN
    /\ tb_table \in {"missing", "present"}
    /\ tb_table_at_start = tb_table
    /\ tb_exists = FALSE
    /\ tb_result = <<>>
    /\ tb_msg = ""

TableIdle ==
    /\ tb_pc = "idle"
    /\ tb_db_exists = FALSE
    /\ tb_name = ""
    /\ tb_state = "present"
    /\ tb_columns = <<>>
    /\ tb_if_not_exists = FALSE
    /\ tb_cascade = FALSE
    /\ tb_gather_info = FALSE
    /\ tb_check_mode = FALSE
    /\ tb_table = "missing"
    /\ tb_table_at_start = "missing"
    /\ tb_exists = FALSE
    /\ tb_result = <<>>
    /\ tb_msg = ""

tableParams ==
    <<tb_db_exists, tb_name, tb_state, tb_columns, tb_if_not_exists, tb_cascade,
      tb_gather_info, tb_check_mode, tb_table_at_start>>

\* module.fail_json(msg=...); the finally clause closes cursor and connection
TableFailJson(msg) ==
    /\ tb_msg' = msg
    /\ tb_pc' = "failed"

\* lines 278-287: the database file must exist; result
TB_CheckDb ==
    /\ tb_pc = "start"
    /\ IF ~tb_db_exists
       THEN /\ TableFailJson("Database file does not exist: /data/app.db")
            /\ UNCHANGED tb_result
       ELSE /\ tb_result' = SetKey(SetKey(<<>>, "changed", FALSE), "table", tb_name)
            /\ tb_pc' = "open"
            /\ UNCHANGED tb_msg
    /\ UNCHANGED <<tb_table, tb_exists, tableParams>>
    /\ UNCHANGED notTableVars

\* lines 289-297: connect, then validate the table name
TB_Open ==
    /\ tb_pc = "open"
    /\ \E connected \in BOOLEAN :
        IF ~connected
        THEN TableFailJson("SQLite error: unable to open database file")
        ELSE IF ~TableIdentifierOk(tb_name)
        THEN TableFailJson("Invalid table name: Invalid SQL identifier: " \o tb_name)
        ELSE tb_pc' = "exists" /\ UNCHANGED tb_msg
    /\ UNCHANGED <<tb_table, tb_exists, tb_result, tableParams>>
    /\ UNCHANGED notTableVars

\* get_table_info (lines 183-207) merged into result by result.update(info)
WithTableInfo(result) ==
    SetKey(SetKey(SetKey(result, "columns", "columns"), "row_count", "count"), "schema", "sql")

\* lines 299-305: table_exists, and get_table_info when asked for and the
\* table exists; either query can raise sqlite3.Error
TB_Exists ==
    /\ tb_pc = "exists"
    /\ \E answered \in BOOLEAN :
        IF ~answered
        THEN /\ TableFailJson("SQLite error: database is locked")
             /\ UNCHANGED <<tb_exists, tb_result>>
        ELSE LET exists == tb_table = "present"
                 result == SetKey(tb_result, "exists", exists)
             IN  /\ tb_exists' = exists
                 /\ tb_result' = IF tb_gather_info /\ exists THEN WithTableInfo(result)
                                 ELSE result
                 /\ tb_pc' = "apply"
                 /\ UNCHANGED tb_msg
    /\ UNCHANGED <<tb_table, tableParams>>
    /\ UNCHANGED notTableVars

\* lines 307-313 with create_table (lines 210-233): a column that fails
\* validation raises ValueError, which main does not catch
TB_Present ==
    /\ tb_pc = "apply"
    /\ tb_state = "present"
    /\ IF tb_exists
       THEN /\ tb_pc' = "exit"
            /\ UNCHANGED <<tb_table, tb_result, tb_msg>>
       ELSE IF tb_check_mode
       THEN /\ tb_result' = SetKey(SetKey(tb_result, "changed", TRUE), "exists", TRUE)
            /\ tb_pc' = "exit"
            /\ UNCHANGED <<tb_table, tb_msg>>
       ELSE IF ~ColumnsValid(tb_columns)
       THEN /\ tb_msg' = "ValueError: Invalid SQL identifier"
            /\ tb_pc' = "crashed"
            /\ UNCHANGED <<tb_table, tb_result>>
       ELSE IF tb_columns = <<>>
       THEN /\ TableFailJson("SQLite error: near \")\": syntax error")
            /\ UNCHANGED <<tb_table, tb_result>>
       ELSE \E created \in BOOLEAN :
            IF created
            THEN /\ tb_table' = "present"
                 /\ tb_result' = SetKey(SetKey(tb_result, "changed", TRUE), "exists", TRUE)
                 /\ tb_pc' = "exit"
                 /\ UNCHANGED tb_msg
            ELSE /\ TableFailJson("SQLite error: database is locked")
                 /\ UNCHANGED <<tb_table, tb_result>>
    /\ UNCHANGED <<tb_exists, tableParams>>
    /\ UNCHANGED notTableVars

\* lines 315-321 with drop_table (lines 236-249)
TB_Absent ==
    /\ tb_pc = "apply"
    /\ tb_state = "absent"
    /\ IF ~tb_exists
       THEN /\ tb_pc' = "exit"
            /\ UNCHANGED <<tb_table, tb_result, tb_msg>>
       ELSE IF tb_check_mode
       THEN /\ tb_result' = SetKey(SetKey(tb_result, "changed", TRUE), "exists", FALSE)
            /\ tb_pc' = "exit"
            /\ UNCHANGED <<tb_table, tb_msg>>
       ELSE \E dropped \in BOOLEAN :
            IF dropped
            THEN /\ tb_table' = "missing"
                 /\ tb_result' = SetKey(SetKey(tb_result, "changed", TRUE), "exists", FALSE)
                 /\ tb_pc' = "exit"
                 /\ UNCHANGED tb_msg
            ELSE /\ TableFailJson("SQLite error: database is locked")
                 /\ UNCHANGED <<tb_table, tb_result>>
    /\ UNCHANGED <<tb_exists, tableParams>>
    /\ UNCHANGED notTableVars

\* lines 327-333: close cursor and connection, module.exit_json(**result)
TB_ExitJson ==
    /\ tb_pc = "exit"
    /\ tb_pc' = "exited"
    /\ UNCHANGED <<tb_table, tb_exists, tb_result, tb_msg, tableParams>>
    /\ UNCHANGED notTableVars

TableNext ==
    \/ TB_CheckDb
    \/ TB_Open
    \/ TB_Exists
    \/ TB_Present
    \/ TB_Absent
    \/ TB_ExitJson

-----------------------------------------------------------------------------
(* Specifications. *)

\* one call of safe_execute_with_retry
InitRetry == RetryInit /\ QueryIdle /\ IdentIdle /\ ErrorIdle /\ PathIdle /\ DbIdle
    /\ BackupIdle /\ TripIdle /\ RotateIdle /\ TableIdle

SpecRetry == InitRetry /\ [][RetryNext]_vars

\* one call of execute_query
InitQuery == QueryInit /\ RetryIdle /\ IdentIdle /\ ErrorIdle /\ PathIdle /\ DbIdle
    /\ BackupIdle /\ TripIdle /\ RotateIdle /\ TableIdle

SpecQuery == InitQuery /\ [][QueryNext]_vars

InitIdent == IdentInit /\ RetryIdle /\ QueryIdle /\ ErrorIdle /\ PathIdle /\ DbIdle
    /\ BackupIdle /\ TripIdle /\ RotateIdle /\ TableIdle

\* one call of validate_sql_identifier
SpecIdent == InitIdent /\ [][IdentNext]_vars

InitError == ErrorInit /\ RetryIdle /\ QueryIdle /\ IdentIdle /\ PathIdle /\ DbIdle
    /\ BackupIdle /\ TripIdle /\ RotateIdle /\ TableIdle

\* one call of standardize_error_message
SpecError == InitError /\ [][ErrorNext]_vars

InitPath == PathInit /\ RetryIdle /\ QueryIdle /\ IdentIdle /\ ErrorIdle /\ DbIdle
    /\ BackupIdle /\ TripIdle /\ RotateIdle /\ TableIdle

\* one call of validate_database_path, of either module
SpecPath == InitPath /\ [][PathNext]_vars

InitDb == DbInit /\ RetryIdle /\ QueryIdle /\ IdentIdle /\ ErrorIdle /\ PathIdle
    /\ BackupIdle /\ TripIdle /\ RotateIdle /\ TableIdle

\* one run of the sqlite_db module
SpecDb == InitDb /\ [][DbNext]_vars

InitBackup ==
    BackupInit /\ RetryIdle /\ QueryIdle /\ IdentIdle /\ ErrorIdle /\ PathIdle /\ DbIdle /\ TripIdle /\ RotateIdle /\ TableIdle

\* one run of the sqlite_backup module
SpecBackup == InitBackup /\ [][BackupNext]_vars

InitTrip ==
    TripInit /\ RetryIdle /\ QueryIdle /\ IdentIdle /\ ErrorIdle /\ PathIdle /\ DbIdle
    /\ BackupIdle /\ RotateIdle /\ TableIdle

\* backup_database, then restore_database of its result
SpecTrip == InitTrip /\ [][TripNext]_vars

InitRotate ==
    RotateInit /\ RetryIdle /\ QueryIdle /\ IdentIdle /\ ErrorIdle /\ PathIdle /\ DbIdle
    /\ BackupIdle /\ TripIdle /\ TableIdle

\* one call of rotate_backups
SpecRotate == InitRotate /\ [][RotateNext]_vars

InitTable ==
    TableInit /\ RetryIdle /\ QueryIdle /\ IdentIdle /\ ErrorIdle /\ PathIdle /\ DbIdle
    /\ BackupIdle /\ TripIdle /\ RotateIdle

\* one run of the sqlite_table module
SpecTable == InitTable /\ [][TableNext]_vars

-----------------------------------------------------------------------------
(* Claims about safe_execute_with_retry, checked under SpecRetry. *)

IsExecute(entry) == entry.op = "execute"
IsSleep(entry) == entry.op = "sleep"

\* the cursor.execute calls and the sleeps of the run so far
Executes == SelectSeq(r_log, IsExecute)
Sleeps == SelectSeq(r_log, IsSleep)

\* the transient lock errors among the outcomes of cursor.execute
TransientLockErrors ==
    { Exc("OperationalError", "database is locked"),
      Exc("OperationalError", "Database is LOCKED"),
      Exc("OperationalError", "SQLITE_BUSY") }

\* the first 100 characters of the query
First100 == IF Len(r_query) > 100 THEN SubSeq(r_query, 1, 100) ELSE r_query

\* C1: with max_retries >= 0, cursor.execute is invoked at most max_retries + 1
\* times, and a successful invocation is the last entry of the log and ends
\* the call with the cursor returned.
C1_BoundedAttempts ==
    max_retries >= 0 =>
        /\ Len(Executes) <= max_retries + 1
        /\ \A i \in 1..Len(r_log) :
            (IsExecute(r_log[i]) /\ r_log[i].outcome.cls = "ok") =>
                (i = Len(r_log) /\ r_pc = "returned")

C1_Witness ==
    /\ r_pc = "returned"
    /\ max_retries = 2
    /\ Len(Executes) = max_retries + 1

\* the first k attempts failed with a transient lock error and attempt k+1 succeeded
FailedThenSucceeded ==
    /\ Executes # <<>>
    /\ Executes[Len(Executes)].outcome.cls = "ok"
    /\ \A i \in 1..(Len(Executes) - 1) : Executes[i].outcome \in TransientLockErrors

\* C2: when the first k <= max_retries attempts fail with a transient lock
\* error and attempt k+1 succeeds, the wrapper has returned after exactly k+1
\* attempts and k sleeps; the sleep after attempt index i lasts
\* retry_delay * 2^i, each sleep is at least twice the one before, and the log
\* alternates attempt, sleep, attempt, ..., attempt.
C2_RetryBackoff ==
    FailedThenSucceeded =>
        LET k == Len(Executes) - 1
        IN  /\ r_pc = "returned"
            /\ k <= max_retries
            /\ Len(Sleeps) = k
            /\ Len(r_log) = 2 * k + 1
            /\ \A i \in 1..Len(r_log) : IsSleep(r_log[i]) <=> (i % 2 = 0)
            /\ \A i \in 1..k : Sleeps[i].arg = retry_delay * (2 ^ (i - 1))
            /\ \A i \in 2..k : Sleeps[i].arg >= 2 * Sleeps[i - 1].arg

C2_Witness ==
    /\ FailedThenSucceeded
    /\ max_retries = 3
    /\ retry_delay = 1
    /\ Len(Executes) = 3
    /\ Sleeps[2].arg = 2

\* C3: an attempt that fails with anything but a transient lock error is the
\* last entry of the log (no sleep and no cursor.execute follows it), and the
\* call ends with SQLiteOperationError whose message carries the first 100
\* characters of the query and the number of that attempt.
C3_NoRetryOfOtherErrors ==
    \A i \in 1..Len(r_log) :
        (/\ IsExecute(r_log[i])
         /\ r_log[i].outcome.cls # "ok"
         /\ r_log[i].outcome \notin TransientLockErrors) =>
            /\ i = Len(r_log)
            /\ r_pc \in {"except", "raised"}
            /\ r_pc = "raised" =>
                /\ r_raised.cls = "SQLiteOperationError"
                /\ Contains(r_raised.msg, " - " \o r_log[i].outcome.msg
                                          \o " (Context: query=" \o First100
                                          \o ", attempt=" \o ToString(Len(Executes)) \o ")")

C3_Witness ==
    /\ r_pc = "raised"
    /\ r_query = LongQuery
    /\ Len(Executes) = 2
    /\ Executes[2].outcome = Exc("OperationalError", "no such table: t")

\* all max_retries + 1 attempts failed with a transient lock error
AllAttemptsLocked ==
    /\ max_retries >= 0
    /\ Len(Executes) = max_retries + 1
    /\ \A i \in 1..Len(Executes) : Executes[i].outcome \in TransientLockErrors
    /\ r_pc = "raised"

\* C4: when all max_retries + 1 attempts fail with a transient lock error,
\* the wrapper fails with SQLiteOperationError wrapping the last error, and the
\* message carries the first 100 characters of the query with the max_retries
\* and final_attempt markers.
C4_FinalAttemptMarkers ==
    AllAttemptsLocked =>
        /\ r_raised.cls = "SQLiteOperationError"
        /\ Contains(r_raised.msg, " - " \o Executes[Len(Executes)].outcome.msg
                                  \o " (Context: query=" \o First100
                                  \o ", max_retries=" \o ToString(max_retries)
                                  \o ", final_attempt=True)")

-----------------------------------------------------------------------------
(* Claims about execute_query, checked under SpecQuery. *)

\* the call has returned or raised
QueryDone == q_pc \in {"returned", "raised"}

Issued(name) == \E i \in 1..Len(q_calls) : q_calls[i] = name
Raised(what) == \E i \in 1..Len(q_failed) : q_failed[i] = what
CountOf(name) == Cardinality({i \in 1..Len(q_calls) : q_calls[i] = name})
IndexOf(name) == CHOOSE i \in 1..Len(q_calls) : q_calls[i] = name

\* the query has several statements and comes with parameters
MultiWithParameters == Len(Statements(query)) > 1 /\ parameters = "nonempty"

\* C5: a query of more than one non-empty statement with non-empty parameters
\* never reaches cursor.execute or cursor.executescript, leaves the database
\* as it was, and never returns a result.
C5_MultiWithParametersFails ==
    MultiWithParameters =>
        /\ ~Issued("execute")
        /\ ~Issued("executescript")
        /\ db_committed = 0
        /\ db_pending = 0
        /\ q_pc # "returned"
        /\ results = <<>>

C5_Witness ==
    /\ MultiWithParameters
    /\ q_pc = "raised"
    /\ q_failed = <<"raise">>
    /\ q_raised.msg = "SQLite error: Parameters are not supported with multiple statements"

\* the call opened a connection with transaction=true and has ended
TransactionalCallDone == QueryDone /\ conn # "None" /\ transaction

\* C6 as claimed: a call that opens a connection with transaction=true issues
\* exactly one of commit and rollback, never both.
C6_ExactlyOneOfCommitRollback ==
    TransactionalCallDone => CountOf("commit") + CountOf("rollback") = 1

\* C6, amended: a call that opens a connection with transaction=true issues
\* commit at most once and rollback at most once, and at least one of them;
\* commit exactly when the statement(s), the fetch and the changed computation
\* succeeded; rollback exactly when the call raises, before the connection is
\* closed; both only when the commit itself failed, the rollback then coming
\* right after it.
C6_CommitOrRollback ==
    TransactionalCallDone =>
        /\ CountOf("commit") <= 1
        /\ CountOf("rollback") <= 1
        /\ CountOf("commit") + CountOf("rollback") >= 1
        /\ Issued("commit") <=> HasKey(results, "changed")
        /\ Issued("rollback") <=> q_pc = "raised"
        /\ Issued("rollback") => IndexOf("rollback") < IndexOf("conn.close")
        /\ (Issued("commit") /\ Issued("rollback")) =>
            /\ Raised("commit")
            /\ IndexOf("rollback") = IndexOf("commit") + 1

C6_Witness ==
    /\ TransactionalCallDone
    /\ Issued("commit")
    /\ Issued("rollback")
    /\ q_caught = CommitError

\* C7: once the call has returned or raised, no connection and no cursor is
\* open, and a connection that was opened has been closed as the last call.
C7_ConnectionClosed ==
    QueryDone =>
        /\ conn # "open"
        /\ cursor # "open"
        /\ (Issued("connect") /\ ~Raised("connect")) =>
            (conn = "closed" /\ q_calls[Len(q_calls)] = "conn.close")

C7_Witness ==
    /\ q_pc = "raised"
    /\ Raised("rollback")
    /\ conn = "closed"
    /\ q_raised = RollbackError

\* the statement failed, then the rollback failed
StatementThenRollbackFailed ==
    /\ q_pc = "raised"
    /\ transaction
    /\ Len(q_failed) = 2
    /\ q_failed[1] \in {"execute", "executescript"}
    /\ q_failed[2] = "rollback"

\* C8: when a statement fails with transaction=true and the rollback fails
\* too, the error that reaches the caller is the statement's error.
C8_RollbackFailureSwallowed ==
    StatementThenRollbackFailed =>
        q_raised \in {q_caught, Exc("DatabaseError", "SQLite error: " \o q_caught.msg)}

ReferenceChanged(q, rc) ==
    LET stmts == Statements(q)
        Has(stmt, kws) == \E kw \in kws : Contains(Lower(stmt), kw)
    IN  IF Len(stmts) > 1
        THEN \E i \in 1..Len(stmts) :
                 Has(stmts[i], {"insert", "update", "delete", "create", "drop", "alter"})
        ELSE IF Has(stmts[1], {"insert", "update", "delete"}) THEN rc > 0
        ELSE Has(stmts[1], {"create", "drop", "alter"})

SingleStatementStarting(words) ==
    /\ Len(Statements(query)) = 1
    /\ \E w \in words : StartsWith(Lower(Statements(query)[1]), w)

\* C11: a successful single CREATE, DROP or ALTER statement returns
\* changed = true, whatever the rowcount and whatever names it mentions.
C11_DdlAlwaysChanged ==
    (q_pc = "returned" /\ SingleStatementStarting({"create", "drop", "alter"})) =>
        results["changed"] = TRUE

\* C12: a successful single SELECT statement never returns changed = true,
\* whatever the rowcount and the rows.
C12_SelectNeverChanged ==
    (q_pc = "returned" /\ SingleStatementStarting({"select"})) =>
        results["changed"] = FALSE

\* the statement is SELECT-shaped or RETURNING-shaped, as the claim words it
SelectOrReturning ==
    StartsWith(Lower(LStrip(query)), "select") \/ Contains(Lower(query), "returning")

C14_MissingDatabase ==
    ~db_exists =>
        /\ q_calls = <<>>
        /\ conn = "None"
        /\ q_pc \in {"start", "raised"}
        /\ q_pc = "raised" =>
            /\ q_raised.cls = "DatabaseError"
            /\ StartsWith(q_raised.msg, "Database file does not exist")

C14_Witness ==
    /\ ~db_exists
    /\ q_pc = "raised"
    /\ q_calls = <<>>

-----------------------------------------------------------------------------
(* Claims about validate_sql_identifier, checked under SpecIdent. *)

IdentDone == v_pc \in {"returned", "raised"}

IdentRejected == v_pc = "raised" /\ v_raised.cls = "SQLiteValidationError"

\* some character of the name is outside [A-Za-z0-9_]
HasForeignChar(name) == \E i \in 1..Len(name) : ~IsWordChar(CharAt(name, i))

\* C15: every string that is empty, starts with a digit, or holds a character
\* outside [A-Za-z0-9_] at any position, a trailing newline included, is
\* rejected with SQLiteValidationError.
C15_BadNamesRejected ==
    (/\ IdentDone
     /\ v_type = "str"
     /\ \/ v_name = ""
        \/ IsDigit(CharAt(v_name, 1))
        \/ HasForeignChar(v_name)) => IdentRejected

\* the name matches ^[A-Za-z_][A-Za-z0-9_]*$ with nothing after it
WellFormed(name) ==
    /\ Len(name) >= 1
    /\ ~IsDigit(CharAt(name, 1))
    /\ ~HasForeignChar(name)

\* C16: a well-formed name whose lowercase form is not reserved is returned
\* unchanged, case preserved; a name whose lowercase form is reserved is
\* rejected with SQLiteValidationError, in any letter case.
C16_ValidReturnedReservedRejected ==
    (IdentDone /\ v_type = "str") =>
        /\ (WellFormed(v_name) /\ Lower(v_name) \notin reserved_keywords) =>
            (v_pc = "returned" /\ v_result = v_name)
        /\ Lower(v_name) \in reserved_keywords => IdentRejected

C16_Witness ==
    /\ v_pc = "raised"
    /\ v_name = "As"
    /\ Contains(v_raised.msg, "'As' is a reserved keyword")

-----------------------------------------------------------------------------
(* Claims about standardize_error_message, checked under SpecError. *)

\* the most specific of the six categories an error of class cls belongs to
MostSpecificCategory(cls) ==
    IF IsInstance(cls, "IntegrityError") THEN "Integrity constraint violation"
    ELSE IF IsInstance(cls, "OperationalError") THEN "Database operation error"
    ELSE IF IsInstance(cls, "DatabaseError") THEN "Database error"
    ELSE IF IsInstance(cls, "PermissionError") THEN "Permission error"
    ELSE IF IsInstance(cls, "OSError") THEN "File system error"
    ELSE "Unexpected error"

\* C17: every error is classified by its most specific category: integrity,
\* operational, other database error, permission error, other filesystem error,
\* and everything else unexpected; a permission error is reported as a
\* permission error.
C17_MostSpecificCategory ==
    e_pc = "returned" =>
        /\ e_error_type = MostSpecificCategory(e_error.cls)
        /\ Contains(e_message, ": " \o MostSpecificCategory(e_error.cls) \o " - ")

-----------------------------------------------------------------------------
(* Claims about validate_database_path, checked under SpecPath. *)

PathDone == p_pc \in {"returned", "raised"}

HasParentSegment(path) == \E i \in 1..Len(Components(path)) : Components(path)[i] = ".."

\* C18: in both implementations, a relative path, a path with a parent-directory
\* segment and a path that differs from its resolved real path are all rejected,
\* and an accepted path is returned as its absolute canonical real path.
C18_PathValidation ==
    (PathDone /\ p_type = "str") =>
        /\ (\/ ~IsAbs(p_path)
            \/ HasParentSegment(p_path)
            \/ Realpath(p_path, p_cwd, p_links) # p_path) => p_pc = "raised"
        /\ p_pc = "returned" =>
            (IsAbs(p_result) /\ p_result = Realpath(p_path, p_cwd, p_links))

-----------------------------------------------------------------------------
(* Claims about sqlite_db, checked under SpecDb. *)

\* C19: with backup=true and outside check mode, a database file that existed
\* at the start is removed or altered only after a backup copy has been made,
\* and a run that has removed the file reports backup_file in its result.
C19_BackupBeforeChange ==
    (d_backup /\ ~d_check_mode /\ d_file_at_start = "original") =>
        /\ d_file # "original" => d_backup_files # {}
        /\ (d_pc = "exited" /\ d_state = "absent" /\ d_file = "missing") =>
            (d_backup_files # {} /\ HasKey(d_result, "backup_file"))

-----------------------------------------------------------------------------
(* Claims about sqlite_backup, checked under SpecBackup. *)

Performed(op) == \E i \in 1..Len(b_calls) : b_calls[i] = op

\* C20: when the destination exists and overwrite is false, backup and restore
\* fail, and the destination is left as it was: nothing is copied, no new file
\* is verified and nothing is rotated.
C20_NoOverwrite ==
    (/\ b_dest_at_start # "missing"
     /\ ~b_overwrite
     /\ b_operation \in {"backup", "restore"}) =>
        /\ b_pc \in {"start", "dest", "failed"}
        /\ b_dest = b_dest_at_start
        /\ ~Performed("copy") /\ ~Performed("verify_dest") /\ ~Performed("rotate")
        /\ ~HasKey(b_result, "changed") \/ b_result["changed"] = FALSE

C20_Witness ==
    /\ b_pc = "failed"
    /\ b_operation = "backup"
    /\ b_src = "db"
    /\ b_dest_at_start = "old"
    /\ b_dest = "old"
    /\ ~b_overwrite
    /\ b_msg = "Destination file exists and overwrite=false: " \o DestPath

-----------------------------------------------------------------------------
(* Claims about backup_database and restore_database, checked under SpecTrip. *)

\* C21 as stated: for every source content and both values of compress, backup
\* followed by restore leaves the restored file identical to the source and
\* the source unchanged.
C21_RoundTripAnyContent ==
    t_pc = "done" => (t_dest = t_src_at_start /\ t_src = t_src_at_start)

\* the content begins with the gzip magic number
LooksCompressed(content) == Len(content) >= 3 /\ SubSeq(content, 1, 3) = "gz:"

\* C21: for every source content that does not itself begin with the gzip
\* magic number, and both values of compress, backup followed by restore
\* leaves the restored file identical to the source and the source unchanged.
C21_RoundTrip ==
    (t_pc = "done" /\ ~(~t_compress /\ LooksCompressed(t_src_at_start))) =>
        (t_dest = t_src_at_start /\ t_src = t_src_at_start)

C21_Witness ==
    /\ t_pc = "done"
    /\ t_compress
    /\ t_src_at_start = "gz:d"
    /\ t_backup = "gz:gz:d"
    /\ t_dest = "gz:d"

-----------------------------------------------------------------------------
(* Claims about rotate_backups, checked under SpecRotate. *)

\* the files of the directory that match the pattern
MatchingAtStart == {f \in DOMAIN o_files_at_start : GlobMatch(f, o_pattern)}

MatchingNow == {f \in DOMAIN o_files : GlobMatch(f, o_pattern)}

Min(a, b) == IF a < b THEN a ELSE b

\* C22: after rotate_backups(pattern, keep_count), when every removal has
\* succeeded exactly min(n, keep_count) of the n matching files remain and no
\* removed file is newer than a kept one; no file outside the pattern is
\* touched; the returned list is exactly the set of files removed.
C22_KeepNewest ==
    (o_pc = "returned" /\ o_pattern # "") =>
        /\ o_failed = {} =>
            /\ Cardinality(MatchingNow) = Min(Cardinality(MatchingAtStart), o_keep_count)
            /\ \A gone \in MatchingAtStart \ MatchingNow : \A kept \in MatchingNow :
                    o_files_at_start[gone] <= o_files_at_start[kept]
        /\ \A f \in DOMAIN o_files_at_start :
              ~GlobMatch(f, o_pattern) => (f \in DOMAIN o_files /\ o_files[f] = o_files_at_start[f])
        /\ \A f \in DOMAIN o_files : o_files[f] = o_files_at_start[f]
        /\ {o_removed_files[i] : i \in DOMAIN o_removed_files}
               = (DOMAIN o_files_at_start) \ (DOMAIN o_files)
        /\ Len(o_removed_files) = Cardinality((DOMAIN o_files_at_start) \ (DOMAIN o_files))

C22_Witness ==
    /\ o_pc = "returned"
    /\ o_pattern = "*.bak"
    /\ o_keep_count = 1
    /\ o_files_at_start = [f \in BackupNames \cup {OtherFile} |-> IF f = "b.bak" THEN 2 ELSE 1]
    /\ DOMAIN o_files = {"b.bak", OtherFile}
    /\ Len(o_removed_files) = 2
    /\ o_failed = {}

-----------------------------------------------------------------------------
(* Claims about repeated runs of sqlite_db, checked under SpecDb. *)

\* the file exists
Exists(file) == file # "missing"

\* C23: outside check mode a successful run with state=present ends with the
\* file existing and one with state=absent with the file missing; changed is
\* true exactly when the existence of the file at the start differed from the
\* requested state; a second run with the same arguments reports changed=false.
C23_ConvergesAndIdempotent ==
    (d_pc = "exited" /\ ~d_check_mode) =>
        /\ Exists(d_file) <=> d_state = "present"
        /\ d_result["changed"] <=> (Exists(d_file_at_start) # (d_state = "present"))
        /\ d_run >= 2 => d_result["changed"] = FALSE

C23_Witness ==
    /\ d_pc = "exited"
    /\ ~d_check_mode
    /\ d_run = 2
    /\ d_state = "absent"
    /\ d_file = "missing"
    /\ d_result["changed"] = FALSE

-----------------------------------------------------------------------------
(* Claims about sqlite_table, checked under SpecTable. *)

\* C24: a successful run with gather_info=true that reports exists=true also
\* reports columns, row_count and schema, the run that creates the table
\* included.
C24_InfoWheneverExists ==
    (tb_pc = "exited" /\ tb_gather_info /\ tb_result["exists"] = TRUE) =>
        /\ HasKey(tb_result, "columns")
        /\ HasKey(tb_result, "row_count")
        /\ HasKey(tb_result, "schema")

-----------------------------------------------------------------------------
(* Claims about check mode, checked under SpecBackup. *)

\* C25: a run in check mode changes nothing: the source file, the destination
\* file and the older backups are what they were when the run began.
C25_CheckModeChangesNothing ==
    b_check_mode =>
        /\ b_src = b_src_at_start
        /\ b_dest = b_dest_at_start
        /\ b_older = b_older_at_start

-----------------------------------------------------------------------------
(* Claims about what execute_query leaves in the database file, checked under
   SpecQuery. *)

\* C26: with transaction=true, when a query of several statements fails, no
\* effect of its statements is in the database after execute_query raised.
C26_ScriptAllOrNothing ==
    (q_pc = "raised" /\ transaction /\ Len(Statements(query)) > 1) =>
        db_committed = 0

\* C27: when execute_query returned changed=true for a single row-modifying
\* statement, the modification is committed to the database file, with
\* transaction=true and with transaction=false.
C27_ChangedIsDurable ==
    (/\ q_pc = "returned"
     /\ Len(Statements(query)) = 1
     /\ EngineIsDml(query)
     /\ results["changed"] = TRUE) =>
        db_committed >= 1

-----------------------------------------------------------------------------
(* Claims about rotation and verification in sqlite_backup, checked under
   SpecBackup. *)

\* the files rotate_backups removed in this run
RemovedByRotation == {b_removed[i] : i \in DOMAIN b_removed}

\* C28: in a backup run with rotation and keep_count >= 1, the backup file the
\* run wrote is not among the files its rotation removed.
C28_NewBackupSurvivesRotation ==
    (b_operation = "backup" /\ Performed("rotate") /\ b_keep_count >= 1) =>
        DestPath \notin RemovedByRotation

\* C29: rotation runs only after the backup has been written and, when
\* verify_backup is true, has passed the integrity check; older backups go
\* away only by rotation; a run that failed has rotated nothing.
C29_RotationAfterVerifiedCopy ==
    /\ Performed("rotate") =>
           /\ Performed("copy")
           /\ b_verify_backup =>
                  /\ Performed("verify_dest")
                  /\ b_result["verified"] = TRUE
    /\ ~Performed("rotate") => (b_older = b_older_at_start /\ b_removed = <<>>)
    /\ b_pc = "failed" => ~Performed("rotate")

C29_Witness ==
    /\ b_pc = "exited"
    /\ b_operation = "backup"
    /\ b_verify_backup
    /\ b_calls = <<"verify_src", "copy", "verify_dest", "rotate">>
    /\ b_result["verified"] = TRUE
    /\ b_older_at_start # NoBackups
    /\ b_older = NoBackups
    /\ Len(b_removed) = 2

\* C30: operation=verify creates and modifies no file, reports changed=false,
\* and reports verified=true only for a source that existed before the run.
C30_VerifyIsReadOnly ==
    b_operation = "verify" =>
        /\ b_src = b_src_at_start
        /\ b_dest = b_dest_at_start
        /\ HasKey(b_result, "changed") => b_result["changed"] = FALSE
        /\ (HasKey(b_result, "verified") /\ b_result["verified"] = TRUE) =>
               b_src_at_start # "missing"

====
